---- MODULE Spec2Model ----
(***************************************************************************)
(* State-machine model of the trade-analysis coordinator (server/main.py,  *)
(* server/telegram_bot.py, server/analyzer.py, server/trade_tracker.py).   *)
(*                                                                         *)
(* Every coroutine is cut at its suspension points (await): the code       *)
(* between two awaits is one atomic action, because the asyncio loop runs  *)
(* one task at a time and switches only at an await.                       *)
(*                                                                         *)
(* Text (a checklist score, a model's reasoning) is a sequence of          *)
(* one-character strings, so that split, int and startswith are computed   *)
(* as the code computes them.                                              *)
(*                                                                         *)
(* server/models.py as found is not the module main.py runs with: it has   *)
(* no TradeCloseReport, which main.py:23 imports, and declares no          *)
(* tp1_close_pct field on WatchTrade or PendingTrade, which main.py:204,   *)
(* main.py:620 and telegram_bot.py:433 write and read.  The model follows  *)
(* main.py and the data model of the spec: the field exists, and reading   *)
(* it at main.py:620 and telegram_bot.py:433 does not raise.               *)
(*                                                                         *)
(* Outside the model: the cached analyses (_last_results, _last_analyses), *)
(* the manual Execute button, the price levels of a setup, the Telegram    *)
(* texts, the missed-scan alert of the start-up and the monthly report.    *)
(* The Execute button queues a PendingTrade under a fresh uuid             *)
(* (telegram_bot.py:323), never under the id of a WatchTrade.              *)
(*                                                                         *)
(* The database works and every messenger send returns, except in          *)
(* SpecFaults, where persist_watch and delete_watch can raise, and in      *)
(* SpecSends, where each send returns or raises.                           *)
(*                                                                         *)
(* Specifications: Spec (the analysis pipeline), SpecConfirm               *)
(* (/confirm_entry), SpecQueue (the queue of pending trades), SpecExpiry   *)
(* (the expiry loop), SpecTrades (the trade records under the reports of   *)
(* the EAs, /reset and restarts), SpecGate (check_risk_filters over the    *)
(* tables of trades it can meet), SpecIngress (the API-key middleware in   *)
(* front of the endpoints), SpecPolls (the polls of the EAs), SpecFetch    *)
(* (the Tier-0 fundamentals cache), SpecExposure (the open trades of two   *)
(* watches and one button press), SpecJobs and SpecWeekly (the periodic    *)
(* jobs of the system loop with and without restarts), SpecCost (the calls *)
(* of the confirmation model), SpecLock (the pipeline lock, with           *)
(* fairness), SpecFaults and SpecSends.                                    *)
(***************************************************************************)
EXTENDS Integers, Sequences, FiniteSets, TLC

\* ------------------------------------------------------------------ bounds
\* uuid4 identifiers handed out over one run (watches and manual trades)
MaxIds == 2
\* Force Execute presses accepted per watch id over one process life
MaxForce == 2
\* last value of time.time() the model reaches (seconds)
MaxNow == 62
\* pipelines waiting for _analysis_lock
MaxWaiting == 1

\* /trade_closed reports applied in one behaviour
MaxReports == 4

\* the last second the clock reaches while trades are followed
MaxWait == 2
\* calls of fetch_fundamentals per symbol and day
MaxFetches == 3
\* days the process lives through
MaxDays == 2
\* last date (day number) the wall clock of the periodic jobs reaches: the
\* Sunday of the second week
MaxDate == 14
\* calls of the confirmation model followed per watch
MaxCalls == 4
\* messenger sends that raise in one behaviour
MaxSendErrors == 1

\* ------------------------------------------------------- program constants
PENDING_TRADE_TTL_SECONDS == 60
AUTO_QUEUE_MIN_CHECKLIST == 7
DEFAULT_MAX_CONFIRMATIONS == 3
MAX_OPEN_TRADES == 2
MAX_DAILY_DRAWDOWN_PCT == 3
DEFAULT_KILL_ZONE_END == 11
STALE_MAX_AGE_HOURS == 24

\* ------------------------------------------------------------ pair profiles
Symbols == {"GBPJPY", "GBPUSD"}

\* symbol[:3] and symbol[3:] (trade_tracker.py:641-642, 663-664)
\* the symbols that have a profile in pair_profiles.PAIR_PROFILES
ProfileSymbols == {"GBPJPY", "EURUSD", "GBPUSD", "XAUUSD", "USDJPY", "EURJPY"}

BaseCurrency(symbol) ==
    CASE symbol \in {"GBPJPY", "GBPUSD"} -> "GBP"
      [] symbol \in {"EURUSD", "EURJPY"} -> "EUR"
      [] symbol = "XAUUSD" -> "XAU"
      [] symbol = "USDJPY" -> "USD"

QuoteCurrency(symbol) ==
    CASE symbol \in {"GBPJPY", "USDJPY", "EURJPY"} -> "JPY"
      [] symbol \in {"EURUSD", "GBPUSD", "XAUUSD"} -> "USD"

\* profile.get("kill_zone_end_mez", 11): only GBPJPY's profile sets the key
KillZoneEnd(symbol) == IF symbol = "GBPJPY" THEN 20 ELSE DEFAULT_KILL_ZONE_END

\* ------------------------------------------------------------------- dicts
EmptyDict == <<>>

DictPut(d, k, v) == [x \in (DOMAIN d) \cup {k} |-> IF x = k THEN v ELSE d[x]]

DictPop(d, k) == [x \in (DOMAIN d) \ {k} |-> d[x]]

\* -------------------------------------------------------------------- text
Digits == <<"0", "1", "2", "3", "4", "5", "6", "7", "8", "9">>

IsDigit(c) == \E d \in 1..10 : Digits[d] = c

DigitValue(c) == (CHOOSE d \in 1..10 : Digits[d] = c) - 1

\* str.startswith
StartsWith(s, p) == Len(s) >= Len(p) /\ SubSeq(s, 1, Len(p)) = p

\* position of the first occurrence of character c in s, 0 when absent
RECURSIVE FindFrom(_, _, _)
FindFrom(s, c, i) ==
    IF i > Len(s) THEN 0
    ELSE IF s[i] = c THEN i
    ELSE FindFrom(s, c, i + 1)

\* str.strip() on blanks, as int() strips its argument
RECURSIVE LStrip(_)
LStrip(s) == IF s # <<>> /\ Head(s) = " " THEN LStrip(Tail(s)) ELSE s

RECURSIVE RStrip(_)
RStrip(s) ==
    IF s # <<>> /\ s[Len(s)] = " " THEN RStrip(SubSeq(s, 1, Len(s) - 1)) ELSE s

RECURSIVE DecimalValue(_, _)
DecimalValue(s, acc) ==
    IF s = <<>> THEN acc
    ELSE DecimalValue(Tail(s), 10 * acc + DigitValue(Head(s)))

\* int(text): [ok, value]; ok = FALSE stands for ValueError
PyInt(text) ==
    LET t == RStrip(LStrip(text))
        signed == t # <<>> /\ Head(t) \in {"-", "+"}
        body == IF signed THEN Tail(t) ELSE t
        valid == body # <<>> /\ \A i \in 1..Len(body) : IsDigit(body[i])
        mag == IF valid THEN DecimalValue(body, 0) ELSE 0
    IN [ok |-> valid,
        value |-> IF signed /\ Head(t) = "-" THEN 0 - mag ELSE mag]

\* ------------------------------------------------------------- model tiers
ErrorPrefix == <<"E", "r", "r", "o", "r", ":">>

ParseFailedPrefix == <<"P", "a", "r", "s", "e", " ", "f", "a", "i", "l", "e", "d">>

\* "Parse failed - skipping for safety" (analyzer.py:1058)
ParseFailedReasoning ==
    ParseFailedPrefix \o <<" ", "-", " ", "s", "k", "i", "p", "p", "i", "n", "g",
                           " ", "f", "o", "r", " ", "s", "a", "f", "e", "t", "y">>

\* "API key missing, auto-confirming" (analyzer.py:973)
ApiKeyMissingReasoning ==
    <<"A", "P", "I", " ", "k", "e", "y", " ", "m", "i", "s", "s", "i", "n", "g", ",",
      " ", "a", "u", "t", "o", "-", "c", "o", "n", "f", "i", "r", "m", "i", "n", "g">>

\* What the provider does with one call: it raises (text = str(e)), it answers
\* text from which _parse_response gets nothing ("garbage"), or it answers a
\* JSON object ("json") whose key "confirmed" / "has_setup" is true, false or
\* absent and whose "reasoning" is text.
JsonFlags == {"true", "false", "absent"}

\* dict.get(key, False) on a JSON boolean
GetFlag(flag) == flag = "true"

\* analyzer.confirm_entry: the dict it returns
confirm_entry(key_set, outcome) ==
    IF ~key_set
    THEN [confirmed |-> TRUE, reasoning |-> ApiKeyMissingReasoning]
    ELSE IF outcome.kind = "raise"
    THEN [confirmed |-> FALSE, reasoning |-> ErrorPrefix \o <<" ">> \o outcome.text]
    ELSE IF outcome.kind = "garbage"
    THEN [confirmed |-> FALSE, reasoning |-> ParseFailedReasoning]
    ELSE [confirmed |-> GetFlag(outcome.flag), reasoning |-> outcome.text]

\* main.py:591
is_transient_error(reasoning) ==
    StartsWith(reasoning, ErrorPrefix) \/ StartsWith(reasoning, ParseFailedPrefix)

\* a screener that fails closed on an answer it cannot parse, to try
\* ScreenerFailsOpen
screen_charts_closed(key_set, outcome) ==
    IF ~key_set THEN TRUE
    ELSE IF outcome.kind = "raise" THEN TRUE
    ELSE IF outcome.kind = "garbage" THEN FALSE
    ELSE GetFlag(outcome.flag)

\* analyzer.screen_charts: the value of screening.get("has_setup", False)
\* that analyze_charts reads from the dict it returns
screen_charts(key_set, outcome) ==
    IF ~key_set THEN TRUE
    ELSE IF outcome.kind = "raise" THEN TRUE
    ELSE IF outcome.kind = "garbage" THEN TRUE
    ELSE GetFlag(outcome.flag)

\* main._parse_checklist_score: "10/12" -> 10, 0 if unparseable
parse_checklist_score(score) ==
    LET slash == FindFrom(score, "/", 1)
        first == IF slash = 0 THEN score ELSE SubSeq(score, 1, slash - 1)
        n == PyInt(first)
    IN IF slash = 0 THEN 0
       ELSE IF n.ok THEN n.value ELSE 0

\* ------------------------------------------------------------------- state
VARIABLES
    api_key_set,      \* config.ANTHROPIC_API_KEY is non-empty (read at start-up)
    now,              \* time.time(), in seconds
    next_id,          \* number of uuid4 identifiers handed out so far
    heap,             \* the WatchTrade objects alive in the process, by id
    watch_trades,     \* main._watch_trades: key -> id of the WatchTrade it holds
    watch_persist,    \* table watch_trades_persist: id -> row
    pending_trades,   \* main._pending_trades: symbol -> PendingTrade
    published,        \* queue_pending_trade calls per trade id in this process
    last_published,   \* the last PendingTrade queued per symbol in this process
    force_buttons,    \* Force Execute buttons on display: <<symbol, id>>
    req,              \* the /confirm_entry handlers
    pl,               \* the _run_analysis task that holds _analysis_lock
    waiting,          \* _run_analysis tasks waiting for _analysis_lock
    sched,            \* _system_tasks_loop inside its watch-expiry loop
    last_market_data, \* shared_state.last_market_data: symbol -> MarketData
    trades,           \* table trades: id -> row
    poll,             \* the last answer of /pending_trade
    gate,             \* the last call of check_risk_filters and its answer
    expiry_sent,      \* send_watch_expired calls per watch id
    close_reports,    \* how often each /trade_closed report was applied
    API_KEY,          \* config.API_KEY (read at start-up), "" when not set
    response,         \* the last response that refused a request
    watch_poll,       \* the last answer of /watch_trade
    fundamentals,     \* Tier 0: analyzer._fundamentals_cache and its use
    verdicts,         \* real answers /confirm_entry returned in this process
    mez,              \* datetime.now(UTC+1) as _system_tasks_loop last read it
    scan_metadata,    \* table scan_metadata: symbol -> scan_date
    scan_deadline_alerted_today, \* main._scan_deadline_alerted_today
    weekly_report_sent,          \* main._weekly_report_sent
    journal,          \* by local date: scans made and deadline warnings
                      \* sent today, weekly reports dispatched
    tier3_usage,      \* answers the provider gave analyzer.confirm_entry, per
                      \* observed watch id
    send_errors       \* "Failed to send" errors in the log

vars == <<api_key_set, now, next_id, heap, watch_trades, watch_persist,
          pending_trades, published, last_published, force_buttons, req, pl,
          waiting, sched, last_market_data, trades, poll, gate, expiry_sent,
          close_reports, API_KEY, response, watch_poll, fundamentals,
          verdicts, mez, scan_metadata, scan_deadline_alerted_today,
          weekly_report_sent, journal, tier3_usage, send_errors>>

\* the state of the periodic jobs of _system_tasks_loop and of the scans they
\* look at
periodic ==
    <<mez, scan_metadata, scan_deadline_alerted_today, weekly_report_sent, journal>>

\* uuid.uuid4().hex[:8]: the n-th identifier
WatchId(n) == "w" \o ToString(n)

\* identifiers a client can send: those handed out, and one never handed out
KnownIds == {WatchId(n) : n \in 0..next_id}

Reqs == {"r1", "r2"}

\* dict.get(key, 0) on the publish counter
Published(id) == IF id \in DOMAIN published THEN published[id] ELSE 0

\* ------------------------------------------------------------ watch trades
\* the fields of a WatchTrade that the model carries. tp1_close_pct is a
\* field of the data model (WatchTrade: "tp1_close_pct (computed from
\* checklist)") that _create_watch_trade passes and /confirm_entry reads
\* (main.py:204, 620)
WatchTradeFields ==
    {"id", "symbol", "bias", "confidence", "checklist_score", "tp1_close_pct",
     "created_at", "max_confirmations", "confirmations_used", "status"}

\* the adaptive percentage with the steps one checklist point higher
tp1_close_pct_shifted(checklist_num) ==
    IF checklist_num >= 11 THEN 40
    ELSE IF checklist_num >= 9 THEN 45
    ELSE IF checklist_num >= 7 THEN 55
    ELSE 60

\* main._create_watch_trade: adaptive TP1 close percentage
tp1_close_pct(checklist_num) ==
    IF checklist_num >= 10 THEN 40
    ELSE IF checklist_num >= 8 THEN 45
    ELSE IF checklist_num >= 6 THEN 55
    ELSE 60

\* main._create_watch_trade
create_watch_trade(id, symbol, setup, created_at) ==
    [id |-> id,
     symbol |-> symbol,
     bias |-> setup.bias,
     confidence |-> setup.confidence,
     checklist_score |-> setup.checklist_score,
     tp1_close_pct |-> tp1_close_pct(parse_checklist_score(setup.checklist_score)),
     created_at |-> created_at,
     max_confirmations |-> DEFAULT_MAX_CONFIRMATIONS,
     confirmations_used |-> 0,
     status |-> "watching"]

\* a registry keyed by watch id, to try AtMostOneWatchingPerSymbol
WatchKeyById(symbol, id) == id

\* the key under which _run_analysis and lifespan store a watch:
\* _watch_trades[symbol] = watch (main.py:150, main.py:270)
WatchKey(symbol, id) == symbol

\* The ids of the WatchTrade objects something still refers to: the registry,
\* a /confirm_entry handler, the list the scheduler iterates over. The others
\* are garbage.
Referenced(registry, requests, scheduler) ==
    {registry[k] : k \in DOMAIN registry}
        \cup {requests[r].id : r \in DOMAIN requests}
        \cup {item[2] : item \in scheduler.todo}

Collect(objects, ids) == [id \in (DOMAIN objects) \cap ids |-> objects[id]]

\* trade_tracker.persist_watch: INSERT OR REPLACE of the row of watch_id
persist_watch(table, watch) ==
    DictPut(table, watch.id,
            [symbol |-> watch.symbol, status |-> "watching", watch_json |-> watch])

\* trade_tracker.delete_watch
delete_watch(table, id) == DictPop(table, id)

\* trade_tracker.load_active_watches: ids of the rows with status = 'watching'
load_active_watches(table) == {id \in DOMAIN table : table[id].status = "watching"}

\* ------------------------------------------------------------- trade queue
\* main.queue_pending_trade: queued_at = time.time(), one entry per symbol
queue_pending_trade(queue, id, symbol) ==
    DictPut(queue, symbol, [id |-> id, symbol |-> symbol, queued_at |-> now])

\* main.get_pending_trade: [trade, queue], trade.id = "" standing for None
NoTrade == [id |-> "", symbol |-> "", queued_at |-> 0]

\* an entry that expires at the TTL, to try TtlWindow
ExpiredAtTtl(trade) == now - trade.queued_at >= PENDING_TRADE_TTL_SECONDS

\* main.py:81
Expired(trade) == now - trade.queued_at > PENDING_TRADE_TTL_SECONDS

\* a queue whose entry the first poll takes, to try Broadcast
take_pending_trade(queue, symbol) ==
    IF symbol \notin DOMAIN queue
    THEN [trade |-> NoTrade, queue |-> queue]
    ELSE [trade |-> IF Expired(queue[symbol]) THEN NoTrade ELSE queue[symbol],
          queue |-> DictPop(queue, symbol)]

\* a look-up that leaves an expired entry in the queue, to try
\* PollsEvictOnly
get_pending_trade_keeping(queue, symbol) ==
    IF symbol \notin DOMAIN queue
    THEN [trade |-> NoTrade, queue |-> queue]
    ELSE IF queue[symbol].queued_at > 0 /\ Expired(queue[symbol])
    THEN [trade |-> NoTrade, queue |-> queue]
    ELSE [trade |-> queue[symbol], queue |-> queue]

\* main.py:77-86
get_pending_trade(queue, symbol) ==
    IF symbol \notin DOMAIN queue
    THEN [trade |-> NoTrade, queue |-> queue]
    ELSE IF queue[symbol].queued_at > 0 /\ Expired(queue[symbol])
    THEN [trade |-> NoTrade, queue |-> DictPop(queue, symbol)]
    ELSE [trade |-> queue[symbol], queue |-> queue]

\* ------------------------------------------------------------ trades table
\* datetime.now(timezone.utc).strftime("%Y-%m-%d"): the day a time falls in
DayOf(t) == t \div 86400

\* TradeSetup.sl_pips, tp1_pips, tp2_pips as the rows of the model carry them
Pips == [sl |-> 30, tp1 |-> 20, tp2 |-> 40]

NotClosed == 0 - 1

RECURSIVE SumPnl(_, _)
SumPnl(table, ids) ==
    IF ids = {} THEN 0
    ELSE LET id == CHOOSE x \in ids : TRUE
         IN table[id].pnl_money + SumPnl(table, ids \ {id})

\* trade_tracker.log_trade_queued: INSERT OR IGNORE, status 'queued' and the
\* schema's default outcome 'open'
log_trade_queued(table, id, symbol, bias) ==
    IF id \in DOMAIN table THEN table
    ELSE DictPut(table, id,
                 [symbol |-> symbol, bias |-> bias, status |-> "queued",
                  outcome |-> "open", pnl_money |-> 0, created_at |-> now,
                  closed_at |-> NotClosed,
                  sl_pips |-> Pips.sl, tp1_pips |-> Pips.tp1, tp2_pips |-> Pips.tp2,
                  pnl_pips |-> 0, tp1_hit |-> FALSE, tp2_hit |-> FALSE,
                  sl_hit |-> FALSE, actual_entry |-> 0, ticket_tp1 |-> 0])

\* what the EA reports of an execution: TradeExecutionReport, where
\* ticket_tp1 stands for the tickets and lots
ExecutionReport(status, actual_entry, ticket_tp1) ==
    [status |-> status, actual_entry |-> actual_entry, ticket_tp1 |-> ticket_tp1]

\* log_trade_executed adding the reported entry to the stored one
log_trade_executed_adding(table, id, report) ==
    IF id \notin DOMAIN table THEN table
    ELSE [table EXCEPT ![id].status = report.status,
                       ![id].outcome =
                           IF report.status \in {"executed", "pending"} THEN "open"
                           ELSE report.status,
                       ![id].actual_entry = table[id].actual_entry + report.actual_entry,
                       ![id].ticket_tp1 = report.ticket_tp1]

\* trade_tracker.log_trade_executed: UPDATE ... WHERE id = ?
log_trade_executed(table, id, report) ==
    IF id \notin DOMAIN table THEN table
    ELSE [table EXCEPT ![id].status = report.status,
                       ![id].outcome =
                           IF report.status \in {"executed", "pending"} THEN "open"
                           ELSE report.status,
                       ![id].actual_entry = report.actual_entry,
                       ![id].ticket_tp1 = report.ticket_tp1]

\* what the EA reports of a close: close_reason and profit of the ticket
CloseReport(close_reason, profit) == [close_reason |-> close_reason, profit |-> profit]

\* trade_tracker.log_trade_closed, lines 402-423: the row with the profit
\* added and the flag of the reason set
HitFlags(trade, report) ==
    [trade EXCEPT !.pnl_money = trade.pnl_money + report.profit,
                  !.tp1_hit = trade.tp1_hit \/ report.close_reason = "tp1",
                  !.tp2_hit = trade.tp2_hit \/ report.close_reason = "tp2",
                  !.sl_hit = trade.sl_hit \/ report.close_reason = "sl"]

\* lines 426-429: is_closed, of the row with its flags set
is_closed(flagged, report) ==
    \/ flagged.sl_hit
    \/ flagged.tp1_hit /\ flagged.tp2_hit
    \/ report.close_reason = "cancelled"

\* lines 432-448: pnl_pips and outcome of a closed trade
Resolution(flagged, report) ==
    IF flagged.sl_hit /\ ~flagged.tp1_hit /\ ~flagged.tp2_hit
    THEN [flagged EXCEPT !.pnl_pips = 0 - flagged.sl_pips, !.outcome = "loss"]
    ELSE IF flagged.tp1_hit /\ flagged.tp2_hit
    THEN [flagged EXCEPT !.pnl_pips = flagged.tp1_pips + flagged.tp2_pips,
                         !.outcome = "full_win"]
    ELSE IF flagged.tp1_hit /\ flagged.sl_hit
    THEN [flagged EXCEPT !.pnl_pips = flagged.tp1_pips, !.outcome = "partial_win"]
    ELSE IF report.close_reason = "cancelled"
    THEN [flagged EXCEPT !.pnl_pips = 0, !.outcome = "cancelled"]
    ELSE [flagged EXCEPT !.outcome = "closed"]

\* trade_tracker.log_trade_closed
log_trade_closed(table, id, report) ==
    IF id \notin DOMAIN table THEN table
    ELSE LET flagged == HitFlags(table[id], report)
         IN [table EXCEPT ![id] =
                IF is_closed(flagged, report)
                THEN [Resolution(flagged, report) EXCEPT
                         !.closed_at = now, !.status = "closed"]
                ELSE flagged]

\* trade_tracker.get_open_trades: the ids of the rows it selects
get_open_trades(table) ==
    {id \in DOMAIN table :
        table[id].outcome = "open" /\ table[id].status \in {"executed", "pending"}}

\* trade_tracker.get_daily_pnl: SUM(pnl_money) over the rows closed today
get_daily_pnl(table) ==
    SumPnl(table, {id \in DOMAIN table :
                      /\ table[id].status = "closed"
                      /\ table[id].closed_at # NotClosed
                      /\ DayOf(table[id].closed_at) = DayOf(now)})

\* direction a trade gives its base and its quote currency
BaseDir(bias) == IF bias = "long" THEN "long" ELSE "short"

QuoteDir(bias) == IF bias = "long" THEN "short" ELSE "long"

\* trade_tracker.get_open_currency_exposure: <<currency, symbol, direction>>
get_open_currency_exposure(table) ==
    UNION {{<<BaseCurrency(table[id].symbol), table[id].symbol, BaseDir(table[id].bias)>>,
            <<QuoteCurrency(table[id].symbol), table[id].symbol, QuoteDir(table[id].bias)>>} :
           id \in get_open_trades(table)}

\* check_correlation_conflict without the test for a different pair
check_exposure_conflict(table, symbol, bias) ==
    \E e \in get_open_currency_exposure(table) :
        \/ e[1] = BaseCurrency(symbol) /\ e[3] = BaseDir(bias)
        \/ e[1] = QuoteCurrency(symbol) /\ e[3] = QuoteDir(bias)

\* trade_tracker.check_correlation_conflict: TRUE when it returns a warning
check_correlation_conflict(table, symbol, bias) ==
    \E e \in get_open_currency_exposure(table) :
        /\ e[2] # symbol
        /\ \/ e[1] = BaseCurrency(symbol) /\ e[3] = BaseDir(bias)
           \/ e[1] = QuoteCurrency(symbol) /\ e[3] = QuoteDir(bias)

\* force_close_all_open_trades without its WHERE clause
force_close_all_trades(table) ==
    [id \in DOMAIN table |->
        [table[id] EXCEPT !.status = "closed", !.outcome = "closed", !.closed_at = now]]

\* trade_tracker.force_close_all_open_trades
force_close_all_open_trades(table) ==
    [id \in DOMAIN table |->
        IF table[id].outcome = "open"
        THEN [table[id] EXCEPT !.status = "closed", !.outcome = "closed",
                               !.closed_at = now]
        ELSE table[id]]

\* trade_tracker.cleanup_stale_open_trades
cleanup_stale_open_trades(table) ==
    [id \in DOMAIN table |->
        IF /\ table[id].outcome = "open"
           /\ table[id].created_at < now - STALE_MAX_AGE_HOURS * 3600
        THEN [table[id] EXCEPT !.status = "closed", !.outcome = "closed",
                               !.closed_at = now]
        ELSE table[id]]

\* ---------------------------------------------------------------- risk gate
Abs(x) == IF x < 0 THEN 0 - x ELSE x

Min(a, b) == IF a < b THEN a ELSE b

\* abs(min(0, daily_pnl)) / balance * 100 >= MAX_DAILY_DRAWDOWN_PCT, for a
\* balance > 0, without the division
DrawdownHit(daily_pnl, balance) ==
    Abs(Min(0, daily_pnl)) * 100 >= MAX_DAILY_DRAWDOWN_PCT * balance

\* the tuple check_risk_filters returns; reason is the head of block_reason
GateAnswer(passed, reason) == [passed |-> passed, reason |-> reason]

\* news_filter.check_news_restriction: it answers whether a news window
\* blocks the symbol; news_blocked is that answer, and the call leaves the
\* state of the program as it is
check_news_restriction(news_blocked) == [blocked |-> news_blocked]

\* check_risk_filters asking for the open trades before the drawdown
risk_filters_max_first(table, balance, symbol, bias, news_blocked) ==
    IF check_news_restriction(news_blocked).blocked THEN GateAnswer(FALSE, "News")
    ELSE IF Cardinality(get_open_trades(table)) >= MAX_OPEN_TRADES
    THEN GateAnswer(FALSE, "Max trades")
    ELSE IF balance > 0 /\ DrawdownHit(get_daily_pnl(table), balance)
    THEN GateAnswer(FALSE, "Drawdown")
    ELSE IF check_correlation_conflict(table, symbol, bias)
    THEN GateAnswer(FALSE, "Correlation")
    ELSE GateAnswer(TRUE, "")

\* telegram_bot.check_risk_filters on the trades in table and the balance
\* last posted for the symbol (0: no market data)
risk_filters(table, balance, symbol, bias, news_blocked) ==
    IF check_news_restriction(news_blocked).blocked THEN GateAnswer(FALSE, "News")
    ELSE IF balance > 0 /\ DrawdownHit(get_daily_pnl(table), balance)
    THEN GateAnswer(FALSE, "Drawdown")
    ELSE IF Cardinality(get_open_trades(table)) >= MAX_OPEN_TRADES
    THEN GateAnswer(FALSE, "Max trades")
    ELSE IF check_correlation_conflict(table, symbol, bias)
    THEN GateAnswer(FALSE, "Correlation")
    ELSE GateAnswer(TRUE, "")

\* a call of check_risk_filters and what it returned; no call yet
GateCall(symbol, bias, news_blocked, answer) ==
    [symbol |-> symbol, bias |-> bias, news_blocked |-> news_blocked, answer |-> answer]

NoGateCall == GateCall("", "", FALSE, GateAnswer(TRUE, ""))

\* shared_state.last_market_data.get(symbol).account_balance, 0 without data
BalanceOf(symbol) ==
    IF symbol \in DOMAIN last_market_data THEN last_market_data[symbol] ELSE 0

\* telegram_bot.check_risk_filters as the program calls it: passed
check_risk_filters(symbol, bias, news_blocked) ==
    risk_filters(trades, BalanceOf(symbol), symbol, bias, news_blocked).passed

\* ------------------------------------------------------------------ inputs
\* a TradeSetup as the full analysis returns it
Setup(bias, checklist_score, confidence) ==
    [bias |-> bias, checklist_score |-> checklist_score, confidence |-> confidence]

Score10 == <<"1", "0", "/", "1", "2">>

Score7 == <<"7", "/", "1", "2">>

Score6 == <<"6", "/", "1", "2">>

Score3 == <<"3", "/", "1", "2">>

ScoreNoSlash == <<"h", "i", "g", "h">>

ScoreBlanks == <<" ", "9", " ", "/", "1", "2">>

ScoreNotNumber == <<"x", "/", "1", "2">>

\* the lists of setups a full analysis answers with
SetupLists ==
    {<<>>,
     <<Setup("short", Score7, "low")>>,
     <<Setup("long", Score6, "high")>>,
     <<Setup("long", Score3, "low")>>,
     <<Setup("long", ScoreNoSlash, "medium_high")>>,
     <<Setup("short", ScoreBlanks, "high")>>,
     <<Setup("long", ScoreNotNumber, "high")>>,
     <<Setup("long", Score10, "high"), Setup("short", Score7, "low")>>}

ReasoningTexts == {<<"w", "i", "c", "k", " ", "r", "e", "j", "e", "c", "t", "i", "o", "n">>, <<"E", "r", "r", "o", "r", ":", " ", "n", "o", " ", "c", "a", "n", "d", "l", "e", "s">>}

ExceptionTexts == {<<"t", "i", "m", "e", "o", "u", "t">>}

\* what one call of the provider can do (see ProviderKinds)
Raise(text) == [kind |-> "raise", flag |-> "absent", text |-> text]

Garbage == [kind |-> "garbage", flag |-> "absent", text |-> <<>>]

Json(flag, text) == [kind |-> "json", flag |-> flag, text |-> text]

ProviderOutcomes ==
    {Raise(t) : t \in ExceptionTexts} \cup {Garbage}
        \cup {Json(f, t) : f \in JsonFlags, t \in ReasoningTexts}

\* the /analyze requests: <<symbol, account_balance>> of their MarketData
AnalyzeRequests == {<<"GBPJPY", 10000>>, <<"GBPUSD", 0>>}

\* ------------------------------------------------------------------ tier 0
\* Tier 0 at the first start: the day (date.today()), the cache by
\* <<symbol, day>>, the calls of fetch_fundamentals and of the provider made
\* so far by <<symbol, day>>, and the symbol of the fetch that awaits the
\* provider ("" for none; _analysis_lock admits one analyze_charts at a time)
NoFundamentals ==
    [day |-> 1, cache |-> EmptyDict, fetches |-> EmptyDict, calls |-> EmptyDict,
     task |-> ""]

\* how often a key was counted in a log
Count(log, key) == IF key \in DOMAIN log THEN log[key] ELSE 0

\* analyzer.py:637-654: fetch_fundamentals up to the call of the provider;
\* it returns the cached text, or "" for want of a key, without a call
FetchBegin(symbol) ==
    LET key == <<symbol, fundamentals.day>>
    IN /\ fundamentals.task = ""
       /\ Count(fundamentals.fetches, key) < MaxFetches
       /\ fundamentals' =
              [fundamentals EXCEPT
                  !.fetches = DictPut(@, key, Count(@, key) + 1),
                  !.calls = IF key \in DOMAIN fundamentals.cache \/ ~api_key_set
                            THEN @ ELSE DictPut(@, key, Count(@, key) + 1),
                  !.task = IF key \in DOMAIN fundamentals.cache \/ ~api_key_set
                           THEN "" ELSE symbol]
       /\ UNCHANGED <<verdicts, watch_poll, periodic, tier3_usage, send_errors,
                      API_KEY, response, gate, expiry_sent,
                      close_reports, api_key_set, now, next_id, heap, watch_trades,
                      watch_persist, pending_trades, published, last_published,
                      force_buttons, req, pl, waiting, sched, last_market_data,
                      trades, poll>>

\* analyzer.py:680-692: the provider answered with a text, which
\* store_fundamentals caches under the key of the day the answer arrives
\* unless it is empty, or raised
FetchEnd(outcome) ==
    /\ fundamentals.task # ""
    /\ fundamentals' =
           [fundamentals EXCEPT
               !.cache = IF outcome = "text"
                         THEN DictPut(@, <<fundamentals.task, fundamentals.day>>, outcome)
                         ELSE @,
               !.task = ""]
    /\ UNCHANGED <<verdicts, watch_poll, periodic, tier3_usage, send_errors,
                   API_KEY, response, gate, expiry_sent,
                   close_reports, api_key_set, now, next_id, heap, watch_trades,
                   watch_persist, pending_trades, published, last_published,
                   force_buttons, req, pl, waiting, sched, last_market_data,
                   trades, poll>>

\* midnight passes: date.today() is the next day
NextDay ==
    /\ fundamentals.day < MaxDays
    /\ fundamentals' = [fundamentals EXCEPT !.day = @ + 1]
    /\ UNCHANGED <<verdicts, watch_poll, periodic, tier3_usage, send_errors,
                   API_KEY, response, gate, expiry_sent,
                   close_reports, api_key_set, now, next_id, heap, watch_trades,
                   watch_persist, pending_trades, published, last_published,
                   force_buttons, req, pl, waiting, sched, last_market_data,
                   trades, poll>>

\* --------------------------------------------------------------- wall clock
\* The wall clock of the loop, UTC+1: a date (day number, day 1 a Monday) and
\* an instant of DayTicks.  The loop wakes every 60 s; of the wake-ups of a
\* day the model keeps those at which the tests of the loop change their
\* answer, and one inside each window.
DayTicks ==
    << <<0, 2>>, <<8, 24>>, <<8, 25>>, <<8, 26>>, <<8, 35>>,
       <<19, 0>>, <<19, 1>>, <<19, 5>>, <<20, 0>> >>

Hour(t) == DayTicks[t.tick][1]

Minute(t) == DayTicks[t.tick][2]

\* datetime.weekday(): Monday is 0, Sunday is 6
Weekday(date) == (date - 1) % 7

\* the start of the model's calendar: a Saturday, just after midnight
FirstTick == [date |-> 6, tick |-> 1]

\* the wake-up after t
NextTick(t) ==
    IF t.tick < Len(DayTicks) THEN [t EXCEPT !.tick = t.tick + 1]
    ELSE [date |-> t.date + 1, tick |-> 1]

\* datetime.now(timezone.utc) formatted %Y-%m-%d at the local instant t: UTC
\* is one hour behind, so the UTC date is the day before during hour 0
UtcDate(t) == IF Hour(t) = 0 THEN t.date - 1 ELSE t.date

NoJournal == [scans |-> {}, warnings |-> EmptyDict, reports |-> EmptyDict]

\* trade_tracker.log_scan_completed at the instant t: INSERT OR REPLACE of
\* the row of the symbol, scan_date the UTC date
log_scan_completed(table, symbol, t) == DictPut(table, symbol, UtcDate(t))

\* main.py:132 with the journal of the scans by local date
ScanLogged(symbol) ==
    /\ scan_metadata' = log_scan_completed(scan_metadata, symbol, mez)
    /\ journal' = [journal EXCEPT !.scans = @ \cup {<<symbol, mez.date>>}]

\* ------------------------------------------------------------ the notifier
\* a handler that ends at a send that raised, to try SendFailureKeepsCore
goes_on_if_sent(sent) == sent

\* "try: await send_...(...)" with "except Exception as e: logger.error(...)"
\* (main.py:155-159, 163-167, 569-573, 599-603, 1007-1011, 712-716,
\* 756-760): the handler goes on behind the send whether it returned (sent)
\* or raised
goes_on(sent) == TRUE

\* the await of a messenger send returns or raises; send_errors counts the
\* sends that raised
Send(sent) ==
    /\ sent \/ send_errors < MaxSendErrors
    /\ send_errors' = IF sent THEN send_errors ELSE send_errors + 1

\* the step makes no send
NoSend(sent) == sent /\ UNCHANGED send_errors

\* ---------------------------------------------------------------- pipeline
\* no answer of the screener yet
NoScreening == [kind |-> "", flag |-> "absent", text |-> <<>>]

\* the _run_analysis task that holds the lock: where it is, its symbol, what
\* the screener did (screening), result.setups, the loop index and what
\* check_news_restriction answered to the last iteration that asked; holders
\* is the number of _run_analysis tasks that are inside the body of
\* "async with _analysis_lock"
IdlePipeline == [pc |-> "idle", symbol |-> "", screening |-> NoScreening,
                 setups |-> <<>>, idx |-> 0, news_blocked |-> FALSE,
                 holders |-> 0]

\* POST /analyze: stores the market data and creates the _run_analysis task,
\* which waits for _analysis_lock
Analyze(symbol, balance) ==
    /\ Len(waiting) < MaxWaiting
    /\ last_market_data' = DictPut(last_market_data, symbol, balance)
    /\ waiting' = Append(waiting, symbol)
    /\ UNCHANGED <<verdicts, fundamentals, watch_poll, periodic, tier3_usage,
                   send_errors, API_KEY, response,
                   gate, expiry_sent, close_reports,
                   api_key_set, now, next_id, heap, watch_trades, watch_persist,
                   pending_trades, published, last_published, force_buttons,
                   req, pl, sched, trades, poll>>

\* the market_data parts clients post: a JSON object with the fields of a
\* request, the empty object, an object with a value of the wrong type for
\* its field (typed FALSE), a JSON array, a text that is no JSON
MarketDataTexts ==
    {[json |-> "object", typed |-> TRUE, symbol |-> a[1], account_balance |-> a[2]] :
        a \in AnalyzeRequests}
        \cup {[json |-> "object", typed |-> TRUE], [json |-> "object", typed |-> FALSE],
               [json |-> "array", typed |-> FALSE], [json |-> "garbage", typed |-> FALSE]}

\* main.py:455-457, json.loads and MarketData(**md_dict): a field left out
\* takes its default (models.py:18-44), a value of the wrong type or a text
\* that is no JSON object raises
ParseMarketData(text) ==
    IF text.json # "object" \/ ~text.typed
    THEN [ok |-> FALSE, symbol |-> "", account_balance |-> 0]
    ELSE [ok |-> TRUE,
          symbol |-> IF "symbol" \in DOMAIN text THEN text.symbol ELSE "GBPJPY",
          account_balance |->
              IF "account_balance" \in DOMAIN text THEN text.account_balance ELSE 0]

\* an /analyze that stores the market data it could read before it answers
\* 400, to try MalformedAnalyzeRejected
AnalyzePostStoring(text) ==
    LET md == ParseMarketData(text)
    IN IF md.ok THEN Analyze(md.symbol, md.account_balance)
       ELSE /\ response' = [path |-> "/analyze", status |-> 400]
            /\ last_market_data' = DictPut(last_market_data, "GBPJPY", 0)
            /\ UNCHANGED <<verdicts, fundamentals, watch_poll, periodic,
                           tier3_usage, send_errors, API_KEY, gate,
                           expiry_sent, close_reports, api_key_set, now, next_id,
                           heap, watch_trades, watch_persist, pending_trades,
                           published, last_published, force_buttons, req, pl,
                           waiting, sched, trades, poll>>

\* POST /analyze, main.py:420-473: a market_data part that does not parse is
\* answered 400 before anything is stored
AnalyzePost(text) ==
    LET md == ParseMarketData(text)
    IN IF md.ok THEN Analyze(md.symbol, md.account_balance)
       ELSE /\ response' = [path |-> "/analyze", status |-> 400]
            /\ UNCHANGED <<verdicts, fundamentals, watch_poll, periodic,
                           tier3_usage, send_errors, API_KEY, gate,
                           expiry_sent, close_reports, api_key_set, now, next_id,
                           heap, watch_trades, watch_persist, pending_trades,
                           published, last_published, force_buttons, req, pl,
                           waiting, sched, last_market_data, trades, poll>>

\* a lock that is never held, to try OnePipelineAtATime
locked_never == FALSE

\* _analysis_lock.locked(): a _run_analysis task is inside the body of
\* "async with _analysis_lock" (main.py:55, 123)
locked == pl.pc # "idle"

\* _run_analysis acquires _analysis_lock, which admits the tasks that wait
\* for it in the order of their arrival, and awaits analyze_charts
PipelineStart ==
    /\ ~locked
    /\ waiting # <<>>
    /\ pl' = [IdlePipeline EXCEPT !.pc = "screening", !.symbol = Head(waiting),
                                  !.holders = pl.holders + 1]
    /\ waiting' = Tail(waiting)
    /\ UNCHANGED <<verdicts, fundamentals, watch_poll, periodic, tier3_usage,
                   send_errors, API_KEY, response,
                   gate, expiry_sent, close_reports,
                   api_key_set, now, next_id, heap, watch_trades, watch_persist,
                   pending_trades, published, last_published, force_buttons,
                   req, sched, last_market_data, trades, poll>>

\* analyze_charts after screen_charts returned: without has_setup it returns
\* a result with no setups, and _run_analysis records the scan and enters
\* its loop over them
Screen(outcome) ==
    /\ pl.pc = "screening"
    /\ pl' = [pl EXCEPT
                !.pc = IF screen_charts(api_key_set, outcome) THEN "tier2" ELSE "loop",
                !.screening = IF api_key_set THEN [outcome EXCEPT !.text = <<>>]
                              ELSE NoScreening,
                !.setups = <<>>,
                !.idx = 1]
    /\ IF screen_charts(api_key_set, outcome)
       THEN UNCHANGED <<scan_metadata, journal>>
       ELSE ScanLogged(pl.symbol)
    /\ UNCHANGED <<mez, scan_deadline_alerted_today, weekly_report_sent,
                   tier3_usage, send_errors,
                   verdicts, fundamentals, watch_poll, API_KEY, response,
                   gate, expiry_sent, close_reports,
                   api_key_set, now, next_id, heap, watch_trades, watch_persist,
                   pending_trades, published, last_published, force_buttons,
                   req, waiting, sched, last_market_data, trades, poll>>

\* analyze_charts_full returned: without an API key a result with no setups,
\* else the setups of the answer; _run_analysis records the scan
FullAnalysis(setups) ==
    /\ pl.pc = "tier2"
    /\ pl' = [pl EXCEPT !.pc = "loop", !.idx = 1, !.screening = NoScreening,
                        !.setups = IF api_key_set THEN setups ELSE <<>>]
    /\ ScanLogged(pl.symbol)
    /\ UNCHANGED <<mez, scan_deadline_alerted_today, weekly_report_sent,
                   tier3_usage, send_errors,
                   verdicts, fundamentals, watch_poll, API_KEY, response,
                   gate, expiry_sent, close_reports,
                   api_key_set, now, next_id, heap, watch_trades, watch_persist,
                   pending_trades, published, last_published, force_buttons,
                   req, waiting, sched, last_market_data, trades, poll>>

\* a threshold of 4, to try AutoQueueIff
QualifiesAtFour(setup) == parse_checklist_score(setup.checklist_score) >= 4

\* main.py:142: the test that sends a setup to the Risk Gate
Qualifies(setup) ==
    parse_checklist_score(setup.checklist_score) >= AUTO_QUEUE_MIN_CHECKLIST

\* one iteration of the auto-queue loop of _run_analysis; news_blocked is the
\* answer of check_news_restriction when the iteration asks for it, sent
\* whether send_watch_started returned
AutoQueueStepSending(news_blocked, sent) ==
    /\ pl.pc = "loop"
    /\ pl.idx <= Len(pl.setups)
    /\ LET setup == pl.setups[pl.idx]
           id == WatchId(next_id + 1)
           watch == create_watch_trade(id, pl.symbol, setup, now)
       IN IF Qualifies(setup) /\ check_risk_filters(pl.symbol, setup.bias, news_blocked)
          THEN /\ next_id < MaxIds
               /\ next_id' = next_id + 1
               /\ watch_trades' = DictPut(watch_trades, WatchKey(pl.symbol, id), id)
               /\ heap' = Collect(DictPut(heap, id, watch),
                                  Referenced(watch_trades', req, sched))
               /\ watch_persist' = persist_watch(watch_persist, watch)
               /\ Send(sent)
          ELSE /\ UNCHANGED <<next_id, heap, watch_trades, watch_persist>>
               /\ NoSend(sent)
    /\ pl' = IF goes_on(sent)
             THEN [pl EXCEPT !.idx = pl.idx + 1,
                             !.news_blocked = Qualifies(pl.setups[pl.idx]) /\ news_blocked]
             ELSE IdlePipeline
    /\ UNCHANGED <<verdicts, fundamentals, watch_poll, periodic, tier3_usage,
                   API_KEY, response, gate, expiry_sent, close_reports,
                   api_key_set, now, pending_trades, published, last_published,
                   force_buttons, req, waiting, sched, last_market_data, trades,
                   poll>>

\* the iteration when the messenger works
AutoQueueStep(news_blocked) == AutoQueueStepSending(news_blocked, TRUE)

\* the loop is over: send_analysis shows the cards or raises, the lock is
\* released
PipelineFinishSending(sent) ==
    /\ pl.pc = "loop"
    /\ pl.idx > Len(pl.setups)
    /\ Send(sent)
    /\ pl' = IdlePipeline
    /\ UNCHANGED <<verdicts, fundamentals, watch_poll, periodic, tier3_usage,
                   API_KEY, response, gate, expiry_sent, close_reports,
                   api_key_set, now, next_id, heap, watch_trades, watch_persist,
                   pending_trades, published, last_published, force_buttons,
                   req, waiting, sched, last_market_data, trades, poll>>

\* the end of the pipeline when the messenger works
PipelineFinish == PipelineFinishSending(TRUE)

\* main.py:123-132: store_analysis or log_scan_completed raises after
\* analyze_charts returned; the exception leaves the body of "async with",
\* which releases the lock, and ends the task
PipelineRaise ==
    /\ pl.pc \in {"screening", "tier2"}
    /\ pl' = IdlePipeline
    /\ UNCHANGED <<verdicts, fundamentals, watch_poll, periodic, tier3_usage,
                   send_errors, API_KEY, response, gate, expiry_sent,
                   close_reports, api_key_set, now, next_id, heap, watch_trades,
                   watch_persist, pending_trades, published, last_published,
                   force_buttons, req, waiting, sched, last_market_data, trades,
                   poll>>

\* ------------------------------------------------------------- publication
\* queue_pending_trade followed by log_trade_queued, as /confirm_entry, Force
\* Execute and Execute call them
Publish(id, symbol, bias) ==
    /\ pending_trades' = queue_pending_trade(pending_trades, id, symbol)
    /\ published' = DictPut(published, id, Published(id) + 1)
    /\ last_published' =
           DictPut(last_published, symbol, queue_pending_trade(<<>>, id, symbol)[symbol])
    /\ trades' = log_trade_queued(trades, id, symbol, bias)

\* GET /pending_trade: answers the entry of the symbol, evicts it when
\* expired; poll keeps the symbol asked for and the id answered ("" for none)
Poll(symbol) ==
    /\ LET r == get_pending_trade(pending_trades, symbol)
       IN /\ pending_trades' = r.queue
          /\ poll' = [symbol |-> symbol, id |-> r.trade.id]
    /\ UNCHANGED <<verdicts, fundamentals, watch_poll, periodic, tier3_usage,
                   send_errors, API_KEY, response,
                   gate, expiry_sent, close_reports,
                   api_key_set, now, next_id, heap, watch_trades, watch_persist,
                   published, last_published, force_buttons, req, pl, waiting,
                   sched, last_market_data, trades>>

\* main.py:522-534, what /watch_trade answers for a symbol: the id of its
\* watch when it is watching ("" for has_watch false)
watch_trade_endpoint(symbol) ==
    IF symbol \in DOMAIN watch_trades /\ heap[watch_trades[symbol]].status = "watching"
    THEN watch_trades[symbol]
    ELSE ""

\* GET /watch_trade; age_seconds, which is the clock less created_at, is left
\* out of the answer
WatchPoll(symbol) ==
    /\ watch_poll' = [symbol |-> symbol, id |-> watch_trade_endpoint(symbol)]
    /\ UNCHANGED <<periodic, tier3_usage, send_errors, verdicts, fundamentals,
                   API_KEY, response, gate, expiry_sent, close_reports,
                   api_key_set, now, next_id, heap, watch_trades, watch_persist,
                   pending_trades, published, last_published, force_buttons,
                   req, pl, waiting, sched, last_market_data, trades, poll>>

\* the clock advances by one second
Tick ==
    /\ now < MaxNow
    /\ now' = now + 1
    /\ UNCHANGED <<verdicts, fundamentals, watch_poll, periodic, tier3_usage,
                   send_errors, API_KEY, response,
                   gate, expiry_sent, close_reports,
                   api_key_set, next_id, heap, watch_trades, watch_persist,
                   pending_trades, published, last_published, force_buttons, req, pl, waiting, sched,
                   last_market_data,
                   trades, poll>>

ExecutionStatuses == {"executed", "failed"}

\* POST /trade_executed: log_trade_executed, then send_trade_confirmation,
\* which returns or raises (sent); the queue is left alone
TradeExecutedSending(id, report, sent) ==
    /\ id \in DOMAIN trades
    /\ trades' = log_trade_executed(trades, id, report)
    /\ Send(sent)
    /\ UNCHANGED <<verdicts, fundamentals, watch_poll, periodic, tier3_usage, API_KEY, response,
                   gate, expiry_sent, close_reports,
                   api_key_set, now, next_id, heap, watch_trades, watch_persist,
                   pending_trades,
                   published, last_published, force_buttons, req, pl, waiting, sched,
                   last_market_data,
                   poll>>

\* the report when the messenger works
TradeExecuted(id, report) == TradeExecutedSending(id, report, TRUE)

\* the reports the EA sends of an execution: placed, placed as a pending
\* order, failed; the status is a free string and is stored as it comes
ReportedStatuses == ExecutionStatuses \cup {"pending", "closed"}

ExecutionReports ==
    {ExecutionReport(status, IF status = "failed" THEN 0 ELSE 1,
                     IF status = "failed" THEN 0 ELSE 7) : status \in ReportedStatuses}

\* the reports the EA sends of a close, with the profit of the closed ticket
CloseReports ==
    {CloseReport("tp1", 50), CloseReport("tp2", 100), CloseReport("sl", 0 - 75),
     CloseReport("manual", 10), CloseReport("cancelled", 0)}

\* how often a /trade_closed report was applied to a trade id so far
Applied(id, report) ==
    IF <<id, report>> \in DOMAIN close_reports THEN close_reports[<<id, report>>] ELSE 0

RECURSIVE CountReports(_, _)
CountReports(log, keys) ==
    IF keys = {} THEN 0
    ELSE LET k == CHOOSE i \in keys : TRUE
         IN log[k] + CountReports(log, keys \ {k})

\* POST /trade_closed: log_trade_closed, then send_trade_close_notification,
\* which returns or raises (sent)
TradeClosedSending(id, report, sent) ==
    /\ id \in DOMAIN trades
    /\ CountReports(close_reports, DOMAIN close_reports) < MaxReports
    /\ trades' = log_trade_closed(trades, id, report)
    /\ close_reports' = DictPut(close_reports, <<id, report>>, Applied(id, report) + 1)
    /\ Send(sent)
    /\ UNCHANGED <<verdicts, fundamentals, watch_poll, periodic, tier3_usage,
                   API_KEY, response,
                   gate, expiry_sent, api_key_set, now, next_id, heap, watch_trades,
                   watch_persist, pending_trades, published, last_published,
                   force_buttons, req, pl, waiting, sched, last_market_data, poll>>

\* the report when the messenger works
TradeClosed(id, report) == TradeClosedSending(id, report, TRUE)

\* the /reset command of the authorised chat: nothing to do without open
\* trades, force_close_all_open_trades otherwise
Reset ==
    /\ get_open_trades(trades) # {}
    /\ trades' = force_close_all_open_trades(trades)
    /\ UNCHANGED <<verdicts, fundamentals, watch_poll, periodic, tier3_usage,
                   send_errors, API_KEY, response,
                   gate, expiry_sent, close_reports, api_key_set, now, next_id, heap,
                   watch_trades, watch_persist, pending_trades, published,
                   last_published, force_buttons, req, pl, waiting, sched,
                   last_market_data, poll>>

\* time passes while trades are open
Wait ==
    /\ now < MaxWait
    /\ now' = now + 1
    /\ UNCHANGED <<verdicts, fundamentals, watch_poll, periodic, tier3_usage,
                   send_errors, API_KEY, response,
                   gate, expiry_sent, close_reports, api_key_set, next_id, heap,
                   watch_trades, watch_persist, pending_trades, published,
                   last_published, force_buttons, req, pl, waiting, sched,
                   last_market_data, trades, poll>>

\* ----------------------------------------------------------- /confirm_entry
\* a handler of /confirm_entry: where it is ("idle", awaiting the "model",
\* awaiting send_confirmation_result in "notify", "answered" once its
\* response is sent after a call of the model), the watch it holds, and its
\* locals confirmed, is_transient_error and remaining; answer records what
\* the call of the model came to (see Answer)
IdleRequest == [pc |-> "idle", id |-> "", answer |-> "", confirmed |-> FALSE,
                transient |-> FALSE, remaining |-> 0]

\* main.py:549-573: look-up, status test and cap test, each of which
\* refuses with a response of its own; past them the handler awaits the M1
\* upload, send_zone_reached, which returns or raises (sent), and the model
ConfirmBeginSending(r, symbol, trade_id, sent) ==
    /\ req[r].pc \in {"idle", "answered"}
    /\ IF symbol \notin DOMAIN watch_trades \/ watch_trades[symbol] # trade_id
       THEN /\ response' = [path |-> "/confirm_entry", status |-> 404]
            /\ UNCHANGED <<heap, req>>
            /\ NoSend(sent)
       ELSE IF heap[trade_id].status # "watching"
       THEN /\ response' = [path |-> "/confirm_entry", status |-> 200]
            /\ UNCHANGED <<heap, req>>
            /\ NoSend(sent)
       ELSE IF heap[trade_id].confirmations_used >= heap[trade_id].max_confirmations
       THEN /\ heap' = [heap EXCEPT ![trade_id].status = "rejected"]
            /\ response' = [path |-> "/confirm_entry", status |-> 200]
            /\ UNCHANGED req
            /\ NoSend(sent)
       ELSE /\ Send(sent)
            /\ IF goes_on(sent)
               THEN /\ req' = [req EXCEPT ![r] = [IdleRequest EXCEPT !.pc = "model",
                                                                    !.id = trade_id]]
                    /\ UNCHANGED <<heap, response>>
               ELSE /\ response' = [path |-> "/confirm_entry", status |-> 500]
                    /\ UNCHANGED <<heap, req>>
    /\ UNCHANGED <<verdicts, fundamentals, watch_poll, periodic, tier3_usage,
                   API_KEY, gate, expiry_sent, close_reports,
                   api_key_set, now, next_id, watch_trades, watch_persist,
                   pending_trades, published, last_published, force_buttons,
                   pl, waiting, sched, last_market_data, trades, poll>>

\* the request when the messenger works
ConfirmBegin(r, symbol, trade_id) == ConfirmBeginSending(r, symbol, trade_id, TRUE)

\* What a call of confirm_entry came to: no call of the provider for want of
\* a key ("nokey"), an exception ("raise"), an answer that does not parse
\* ("garbage"), or a JSON object whose "confirmed" is "true", "false" or
\* "absent".
Answer(key_set, outcome) ==
    IF ~key_set THEN "nokey"
    ELSE IF outcome.kind = "json" THEN outcome.flag
    ELSE outcome.kind

\* main.py:576-596: confirm_entry returned; the attempt is counted unless the
\* reasoning names a transient error; send_confirmation_result, which the
\* handler awaits next, shows the Force Execute button on any refusal.
\* tier3_usage counts, for the watches it observes, the calls of
\* client.messages.create (analyzer.py:1034) that were made for the watch: one
\* per call of confirm_entry with a key, whatever came back.
ConfirmAnswer(r, outcome) ==
    /\ req[r].pc = "model"
    /\ LET result == confirm_entry(api_key_set, outcome)
           watch == heap[req[r].id]
           transient == is_transient_error(result.reasoning)
           used == IF transient THEN watch.confirmations_used
                   ELSE watch.confirmations_used + 1
       IN /\ heap' = [heap EXCEPT ![watch.id].confirmations_used = used]
          /\ req' = [req EXCEPT ![r].pc = "notify",
                                ![r].confirmed = result.confirmed,
                                ![r].transient = transient,
                                ![r].answer = Answer(api_key_set, outcome),
                                ![r].remaining = watch.max_confirmations - used]
          /\ force_buttons' =
                 IF result.confirmed THEN force_buttons
                 ELSE force_buttons \cup {<<watch.symbol, watch.id>>}
          /\ tier3_usage' =
                 IF api_key_set /\ watch.id \in DOMAIN tier3_usage
                 THEN [tier3_usage EXCEPT ![watch.id] = @ + 1]
                 ELSE tier3_usage
    /\ UNCHANGED <<verdicts, fundamentals, watch_poll, periodic, send_errors,
                   API_KEY, response, gate, expiry_sent, close_reports,
                   api_key_set, now, next_id, watch_trades, watch_persist,
                   pending_trades, published, last_published, pl, waiting, sched,
                   last_market_data, trades,
                   poll>>

\* the responses /confirm_entry returned for a watch id in this process
\* after a counted answer of the model: with confirmed false, with
\* confirmed true
Verdicts(id) ==
    IF id \in DOMAIN verdicts THEN verdicts[id] ELSE [refused |-> 0, confirmed |-> 0]

\* main.py:676 with a bound below zero, to try RejectedAfterLastRefusal
ExhaustedBelowZero(remaining) == remaining < 0

\* main.py:676: no attempt is left
Exhausted(remaining) == remaining <= 0

\* main.py:599-682: send_confirmation_result returned or raised (sent); the
\* verdict is applied and the response returned, which carries confirmed and
\* remaining as they stand; the handler lets go of the watch
ConfirmCompleteSending(r, sent) ==
    /\ req[r].pc = "notify"
    /\ Send(sent)
    /\ LET watch == heap[req[r].id]
           done == [req EXCEPT ![r] = [IdleRequest EXCEPT !.pc = "answered"]]
           alive == Referenced(watch_trades, done, sched)
       IN /\ req' = done
          /\ IF ~goes_on(sent)
             THEN /\ heap' = Collect(heap, alive)
                  /\ response' = [path |-> "/confirm_entry", status |-> 500]
                  /\ UNCHANGED <<watch_persist, pending_trades, published,
                                 last_published, trades>>
             ELSE IF req[r].confirmed
             THEN /\ heap' = Collect([heap EXCEPT ![watch.id].status = "confirmed"], alive)
                  /\ watch_persist' = delete_watch(watch_persist, watch.id)
                  /\ Publish(watch.id, watch.symbol, watch.bias)
                  /\ UNCHANGED response
             ELSE IF Exhausted(req[r].remaining)
             THEN /\ heap' = Collect([heap EXCEPT ![watch.id].status = "rejected"], alive)
                  /\ watch_persist' = delete_watch(watch_persist, watch.id)
                  /\ UNCHANGED <<pending_trades, published, last_published, trades,
                                 response>>
             ELSE /\ heap' = Collect(heap, alive)
                  /\ UNCHANGED <<watch_persist, pending_trades, published,
                                 last_published, trades, response>>
    /\ verdicts' =
           IF req[r].transient \/ ~goes_on(sent) THEN verdicts
           ELSE DictPut(verdicts, req[r].id,
                        IF req[r].confirmed
                        THEN [Verdicts(req[r].id) EXCEPT !.confirmed = @ + 1]
                        ELSE [Verdicts(req[r].id) EXCEPT !.refused = @ + 1])
    /\ UNCHANGED <<fundamentals, watch_poll, periodic, tier3_usage, API_KEY,
                   gate, expiry_sent, close_reports, api_key_set, now, next_id,
                   watch_trades, force_buttons, pl, waiting, sched,
                   last_market_data, poll>>

\* the end of the request when the messenger works
ConfirmComplete(r) == ConfirmCompleteSending(r, TRUE)

\* ----------------------------------------------------------- Force Execute
\* a look-up that finds only a watch still watched, to try
\* ForceAfterThreeRefusals
force_finds_watching(symbol, trade_id) ==
    /\ symbol \in DOMAIN watch_trades
    /\ watch_trades[symbol] = trade_id
    /\ heap[trade_id].status = "watching"

\* telegram_bot.py:413-414: the registry holds a watch for the symbol and it
\* carries the button's id
force_finds(symbol, trade_id) ==
    symbol \in DOMAIN watch_trades /\ watch_trades[symbol] = trade_id

\* telegram_bot._handle_callback, branch force_: the watch the registry holds
\* for the symbol is confirmed and published if it carries the button's id
ForceExecute(symbol, trade_id) ==
    /\ <<symbol, trade_id>> \in force_buttons
    /\ Published(trade_id) < MaxForce
    /\ IF force_finds(symbol, trade_id)
       THEN /\ heap' = [heap EXCEPT ![trade_id].status = "confirmed"]
            /\ watch_persist' = delete_watch(watch_persist, trade_id)
            /\ Publish(trade_id, symbol, heap[trade_id].bias)
       ELSE UNCHANGED <<heap, watch_persist, pending_trades, published,
                        last_published, trades>>
    /\ UNCHANGED <<verdicts, fundamentals, watch_poll, periodic, tier3_usage,
                   send_errors, API_KEY, response,
                   gate, expiry_sent, close_reports,
                   api_key_set, now, next_id, watch_trades, force_buttons,
                   req, pl, waiting, sched, last_market_data, poll>>

\* ---------------------------------------------------------------- scheduler
IdleScheduler == [pc |-> "idle", hour |-> 0, todo |-> {}]

\* hours (MEZ) at which the scheduler wakes: before both kill zones end, after
\* the default one ended, after both ended
Hours == {10, 11, 20}

\* the send_watch_expired calls made for a watch id so far
Sent(id) == IF id \in DOMAIN expiry_sent THEN expiry_sent[id] ELSE 0

\* the expiry loop letting a watch live through the hour its kill zone ends
ExpireItemLate(item, hour, rest) ==
    LET alive == Referenced(watch_trades, req, [todo |-> rest])
    IN /\ IF heap[item[2]].status = "watching" /\ hour > KillZoneEnd(item[1])
          THEN /\ heap' = Collect([heap EXCEPT ![item[2]].status = "expired"], alive)
               /\ watch_persist' = delete_watch(watch_persist, item[2])
               /\ expiry_sent' = DictPut(expiry_sent, item[2], Sent(item[2]) + 1)
          ELSE /\ heap' = Collect(heap, alive)
               /\ UNCHANGED <<watch_persist, expiry_sent>>
       /\ sched' = IF rest = {} THEN IdleScheduler
                   ELSE [pc |-> "loop", hour |-> hour, todo |-> rest]

\* main.py:996-1008, one item of the expiry loop: the program after it
ExpireItem(item, hour, rest) ==
    LET alive == Referenced(watch_trades, req, [todo |-> rest])
    IN /\ IF heap[item[2]].status = "watching" /\ hour >= KillZoneEnd(item[1])
          THEN /\ heap' = Collect([heap EXCEPT ![item[2]].status = "expired"], alive)
               /\ watch_persist' = delete_watch(watch_persist, item[2])
               /\ expiry_sent' = DictPut(expiry_sent, item[2], Sent(item[2]) + 1)
          ELSE /\ heap' = Collect(heap, alive)
               /\ UNCHANGED <<watch_persist, expiry_sent>>
       /\ sched' = IF rest = {} THEN IdleScheduler
                   ELSE [pc |-> "loop", hour |-> hour, todo |-> rest]

\* send_watch_expired is awaited for an item the loop expires (main.py:
\* 1005-1011); it returns or raises (sent), and the loop goes on
SendExpired(item, sent) ==
    IF Sent(item[2])' > Sent(item[2]) THEN Send(sent) ELSE NoSend(sent)

\* _system_tasks_loop wakes: it reads the hour, takes
\* list(_watch_trades.items()) and handles the first item
SchedulerWakeSending(hour, sent) ==
    /\ sched.pc = "idle"
    /\ LET items == {<<k, watch_trades[k]>> : k \in DOMAIN watch_trades}
       IN IF items = {}
          THEN UNCHANGED <<heap, watch_persist, sched, expiry_sent>> /\ NoSend(sent)
          ELSE \E item \in items :
                  /\ ExpireItem(item, hour, items \ {item})
                  /\ SendExpired(item, sent)
    /\ UNCHANGED <<verdicts, fundamentals, watch_poll, periodic, tier3_usage,
                   API_KEY, response,
                   gate, close_reports, api_key_set, now, next_id, watch_trades,
                   pending_trades, published, last_published, force_buttons, req,
                   pl, waiting, last_market_data, trades, poll>>

\* the tick when the messenger works
SchedulerWake(hour) == SchedulerWakeSending(hour, TRUE)

\* the loop goes on with the next item once send_watch_expired returned or
\* raised
SchedulerStepSending(sent) ==
    /\ sched.pc = "loop"
    /\ \E item \in sched.todo :
          /\ ExpireItem(item, sched.hour, sched.todo \ {item})
          /\ SendExpired(item, sent)
    /\ UNCHANGED <<verdicts, fundamentals, watch_poll, periodic, tier3_usage,
                   API_KEY, response,
                   gate, close_reports, api_key_set, now, next_id, watch_trades,
                   pending_trades, published, last_published, force_buttons, req,
                   pl, waiting, last_market_data, trades, poll>>

\* the step when the messenger works
SchedulerStep == SchedulerStepSending(TRUE)

\* ------------------------------------------------ failures of the database
\* The functions of trade_tracker open a connection of their own and let
\* sqlite3 errors through (_get_db, trade_tracker.py:96-109): persist_watch
\* and delete_watch raise when the database is locked or cannot be written.
\*
\* main.py:605-608 and 676-678: /confirm_entry has set the status, then
\* delete_watch raises; the exception leaves the handler, which answers 500
ConfirmCompleteStoreDown(r) ==
    /\ req[r].pc = "notify"
    /\ req[r].confirmed \/ Exhausted(req[r].remaining)
    /\ LET watch == heap[req[r].id]
           done == [req EXCEPT ![r] = [IdleRequest EXCEPT !.pc = "answered"]]
           status == IF req[r].confirmed THEN "confirmed" ELSE "rejected"
       IN /\ req' = done
          /\ heap' = Collect([heap EXCEPT ![watch.id].status = status],
                             Referenced(watch_trades, done, sched))
    /\ response' = [path |-> "/confirm_entry", status |-> 500]
    /\ UNCHANGED <<verdicts, fundamentals, watch_poll, periodic, tier3_usage,
                   send_errors, API_KEY, gate, expiry_sent, close_reports,
                   api_key_set, now, next_id, watch_trades, watch_persist,
                   pending_trades, published, last_published, force_buttons,
                   pl, waiting, sched, last_market_data, trades, poll>>

\* main.py:1002-1004 and 1067-1070: the expiry loop has set the status, then
\* delete_watch raises; the handler around the iteration of the system loop
\* logs the error, and what the iteration had left to do is not done
ExpireItemStoreDown(item, hour) ==
    /\ heap[item[2]].status = "watching"
    /\ hour >= KillZoneEnd(item[1])
    /\ heap' = Collect([heap EXCEPT ![item[2]].status = "expired"],
                       Referenced(watch_trades, req, IdleScheduler))
    /\ sched' = IdleScheduler
    /\ UNCHANGED <<verdicts, fundamentals, watch_poll, periodic, tier3_usage,
                   send_errors, API_KEY, response, gate, expiry_sent,
                   close_reports, api_key_set, now, next_id, watch_trades,
                   watch_persist, pending_trades, published, last_published,
                   force_buttons, req, pl, waiting, last_market_data, trades,
                   poll>>

\* the failure at the first item of the loop, and at a later one
SchedulerWakeStoreDown(hour) ==
    /\ sched.pc = "idle"
    /\ \E k \in DOMAIN watch_trades : ExpireItemStoreDown(<<k, watch_trades[k]>>, hour)

SchedulerStepStoreDown ==
    /\ sched.pc = "loop"
    /\ \E item \in sched.todo : ExpireItemStoreDown(item, sched.hour)

\* main.py:148-151: the auto-queue loop has put the watch into the registry,
\* then persist_watch raises; the exception ends the task, which releases the
\* lock: send_watch_started and send_analysis are not reached
AutoQueueStoreDown(news_blocked) ==
    /\ pl.pc = "loop"
    /\ pl.idx <= Len(pl.setups)
    /\ LET setup == pl.setups[pl.idx]
           id == WatchId(next_id + 1)
           watch == create_watch_trade(id, pl.symbol, setup, now)
       IN /\ Qualifies(setup)
          /\ check_risk_filters(pl.symbol, setup.bias, news_blocked)
          /\ next_id < MaxIds
          /\ next_id' = next_id + 1
          /\ watch_trades' = DictPut(watch_trades, WatchKey(pl.symbol, id), id)
          /\ heap' = Collect(DictPut(heap, id, watch),
                             Referenced(watch_trades', req, sched))
    /\ pl' = IdlePipeline
    /\ UNCHANGED <<verdicts, fundamentals, watch_poll, periodic, tier3_usage,
                   send_errors, API_KEY, response, gate, expiry_sent,
                   close_reports, api_key_set, now, watch_persist,
                   pending_trades, published, last_published, force_buttons,
                   req, waiting, sched, last_market_data, trades, poll>>

\* ------------------------------------------------------------ periodic jobs
\* profile.get("kill_zone_start_mez", 8): every profile that sets the key
\* sets 8
KillZoneStart(symbol) == 8

\* main.py:1019-1021: the deadline window of a symbol holds the instant t
InDeadlineWindow(symbol, t) ==
    Hour(t) = KillZoneStart(symbol) /\ 25 <= Minute(t) /\ Minute(t) < 35

\* main.py:1026-1027: no scan of the symbol is recorded for today_str
NoScanToday(symbol, today_str) ==
    symbol \notin DOMAIN scan_metadata \/ scan_metadata[symbol] # today_str

\* main.py:1022-1028: the deadline check of a symbol ends in a warning
warns(symbol, t) ==
    /\ InDeadlineWindow(symbol, t)
    /\ <<symbol, t.date>> \notin scan_deadline_alerted_today
    /\ NoScanToday(symbol, t.date)

\* main.py:1041: the instant lies in the window of the weekly report
InReportWindow(t) == Weekday(t.date) = 6 /\ Hour(t) = 19 /\ Minute(t) < 5

\* a guard that is never reset
reset_never(t) == FALSE

\* main.py:1049: the elif that resets _weekly_report_sent
resets(t) == ~InReportWindow(t) /\ (Weekday(t.date) # 6 \/ Hour(t) # 19)

\* how often a key was written into a log of the journal
Logged(log, key) == IF key \in DOMAIN log THEN log[key] ELSE 0

\* main.py:994-1000: the expiry loop finds no watch to expire at this hour
NothingToExpire(hour) ==
    \A k \in DOMAIN watch_trades :
        heap[watch_trades[k]].status # "watching" \/ hour < KillZoneEnd(k)

\* One iteration of _system_tasks_loop (main.py:985-1050) whose expiry loop
\* finds nothing to expire: the deadline check of every active pair, the
\* reset of the alerts at midnight, the weekly report.  The sends it awaits
\* touch nothing a scan or a restart in between could change.
PeriodicJobs ==
    LET t == NextTick(mez)
        warned == {symbol \in Symbols : warns(symbol, t)}
        alerted == scan_deadline_alerted_today \cup {<<symbol, t.date>> : symbol \in warned}
        report == InReportWindow(t) /\ ~weekly_report_sent
    IN /\ sched.pc = "idle"
       /\ t.date <= MaxDate
       /\ NothingToExpire(Hour(t))
       /\ mez' = t
       /\ scan_deadline_alerted_today' =
              IF Hour(t) = 0 /\ Minute(t) < 5 THEN {} ELSE alerted
       /\ weekly_report_sent' =
              IF InReportWindow(t) THEN TRUE
              ELSE IF resets(t) THEN FALSE
              ELSE weekly_report_sent
       /\ journal' =
              [journal EXCEPT
                 !.scans = {scan \in @ : scan[2] = t.date},
                 !.warnings =
                     [key \in {k \in DOMAIN @ : k[2] = t.date}
                                 \cup {<<symbol, t.date>> : symbol \in warned} |->
                         IF key[1] \in warned THEN Logged(@, key) + 1 ELSE @[key]],
                 !.reports =
                     IF report THEN DictPut(@, t.date, Logged(@, t.date) + 1) ELSE @]
       /\ UNCHANGED <<scan_metadata, tier3_usage, send_errors, verdicts,
                      fundamentals, watch_poll, API_KEY, response, gate,
                      expiry_sent, close_reports, api_key_set, now, next_id, heap,
                      watch_trades, watch_persist, pending_trades, published,
                      last_published, force_buttons, req, pl, waiting, sched,
                      last_market_data, trades, poll>>

\* --------------------------------------------------------------- middleware
\* the middleware letting a request without X-API-Key through, to try
\* KeyRequiredWhenSet
verify_api_key_if_present(configured, path, header) ==
    IF path \in {"/health", "/webhook/telegram"} \/ StartsWith(path, "/public/")
    THEN 0
    ELSE IF configured = "" \/ header = ""
    THEN 0
    ELSE IF header # configured
    THEN 401
    ELSE 0

\* main.py:365-381, verify_api_key: the status with which the middleware
\* answers a request itself, or 0 when it hands the request to call_next.
\* header is request.headers.get("X-API-Key", ""): "" when there is none.
verify_api_key(configured, path, header) ==
    IF path \in {"/health", "/webhook/telegram"} \/ StartsWith(path, "/public/")
    THEN 0
    ELSE IF configured = ""
    THEN 0
    ELSE IF header # configured
    THEN 401
    ELSE 0

\* no request was refused yet
NoResponse == [path |-> "", status |-> 0]

\* the middleware refuses a request: no handler runs
Unauthorized(path, header) ==
    /\ verify_api_key(API_KEY, path, header) = 401
    /\ response' = [path |-> path, status |-> 401]
    /\ UNCHANGED <<verdicts, fundamentals, watch_poll, periodic, tier3_usage,
                   send_errors, api_key_set, now, next_id, heap, watch_trades,
                   watch_persist,
                   pending_trades, published, last_published, force_buttons, req,
                   pl, waiting, sched, last_market_data, trades, poll, gate,
                   expiry_sent, close_reports, API_KEY>>

\* the middleware hands a request to its handler
Authorized(path, header) == verify_api_key(API_KEY, path, header) = 0

\* ------------------------------------------------------------------ restart
NoPoll == [symbol |-> "", id |-> ""]

\* the symbols that have a row in watch_trades_persist
PersistedSymbols(table) == {table[id].symbol : id \in load_active_watches(table)}

\* lifespan, main.py:264-275: for every symbol the last row that
\* load_active_watches yields wins the registry entry. The query has no
\* ORDER BY, so any row of the symbol can be that one: a pick is one choice.
Picks(table) ==
    {pick \in [PersistedSymbols(table) -> load_active_watches(table)] :
        \A s \in DOMAIN pick : table[pick[s]].symbol = s}

\* the WatchTrade objects the registry holds after the restore, parsed from
\* watch_json
RestoredHeap(table, pick) ==
    [id \in {pick[s] : s \in DOMAIN pick} |-> table[id].watch_json]

RestoredRegistry(table, pick) ==
    [k \in {WatchKey(s, pick[s]) : s \in DOMAIN pick} |->
        CHOOSE id \in {pick[s] : s \in DOMAIN pick} :
            WatchKey(table[id].symbol, id) = k]

\* The process stops and starts again (lifespan): memory is lost, the API key
\* is read again, stale trades are swept, the watches are restored.
Restart(key_set, pick) ==
    /\ api_key_set' = key_set
    /\ heap' = RestoredHeap(watch_persist, pick)
    /\ watch_trades' = RestoredRegistry(watch_persist, pick)
    /\ trades' = cleanup_stale_open_trades(trades)
    /\ pending_trades' = EmptyDict
    /\ published' = EmptyDict
    /\ last_published' = EmptyDict
    /\ req' = [r \in Reqs |-> IdleRequest]
    /\ pl' = IdlePipeline
    /\ waiting' = <<>>
    /\ sched' = IdleScheduler
    /\ last_market_data' = EmptyDict
    /\ poll' = NoPoll
    /\ watch_poll' = NoPoll
    /\ fundamentals' = [fundamentals EXCEPT !.task = ""]
    /\ verdicts' = EmptyDict
    /\ scan_deadline_alerted_today' = {}
    /\ weekly_report_sent' = FALSE
    /\ UNCHANGED <<now, next_id, watch_persist, force_buttons, gate, expiry_sent,
                   close_reports, API_KEY, response, mez, scan_metadata, journal,
                   tier3_usage, send_errors>>

\* ------------------------------------------------------------ specifications
\* a row of watch_trades_persist as persist_watch wrote it in an earlier run
WatchRow(id, symbol, bias) ==
    persist_watch(EmptyDict,
                  create_watch_trade(id, symbol, Setup(bias, Score10, "high"), 0))[id]

\* a row of trades as an earlier run left it
TradeRow(symbol, bias, status, outcome, pnl_money, closed_at) ==
    [symbol |-> symbol, bias |-> bias, status |-> status, outcome |-> outcome,
     pnl_money |-> pnl_money, created_at |-> 0, closed_at |-> closed_at,
     sl_pips |-> Pips.sl, tp1_pips |-> Pips.tp1, tp2_pips |-> Pips.tp2,
     pnl_pips |-> 0, tp1_hit |-> FALSE, tp2_hit |-> FALSE, sl_hit |-> FALSE,
     actual_entry |-> 0, ticket_tp1 |-> 0]

Database(watches, trades_table, ids) ==
    [watches |-> watches, trades |-> trades_table, ids |-> ids]

\* the database of the first start
EmptyDatabase == Database(EmptyDict, EmptyDict, 0)

\* What earlier runs can leave in watch_trades_persist: one watch; two
\* watches of one symbol (the second replaced the first in the registry, both
\* rows stayed).
OneWatch == Database([i \in {"w1"} |-> WatchRow(i, "GBPJPY", "long")], EmptyDict, 1)

TwoWatches ==
    Database([i \in {"w1", "w2"} |->
                 WatchRow(i, "GBPJPY", IF i = "w1" THEN "long" ELSE "short")],
             EmptyDict, 2)

\* ... or two watches of two symbols
TwoSymbols ==
    Database([i \in {"w1", "w2"} |->
                 WatchRow(i, IF i = "w1" THEN "GBPJPY" ELSE "GBPUSD", "long")],
             EmptyDict, 2)

\* What earlier runs can leave in trades: an open trade, two open trades, a
\* trade closed today at a loss.
OpenTrade ==
    Database(EmptyDict,
             [i \in {"t1"} |-> TradeRow("GBPJPY", "long", "executed", "open", 0, NotClosed)],
             0)

TwoOpenTrades ==
    Database(EmptyDict,
             [i \in {"t1", "t2"} |->
                 TradeRow(IF i = "t1" THEN "GBPJPY" ELSE "GBPUSD",
                          IF i = "t1" THEN "long" ELSE "short",
                          "executed", "open", 0, NotClosed)],
             0)

LostTrade ==
    Database(EmptyDict,
             [i \in {"t1"} |-> TradeRow("GBPJPY", "long", "closed", "loss", 0 - 400, 0)],
             0)

\* ... or two open trades, one placed a second ago and one placed as long ago
\* as a trade can be without being stale at the start
AgedTrades ==
    Database(EmptyDict,
             [i \in {"t1", "t2"} |->
                 [TradeRow(IF i = "t1" THEN "GBPJPY" ELSE "GBPUSD", "long",
                           "executed", "open", 0, NotClosed)
                  EXCEPT !.created_at =
                      IF i = "t1" THEN 0 ELSE 1 - STALE_MAX_AGE_HOURS * 3600]],
             0)

\* the Force Execute buttons an earlier run can have left on display: of
\* watches that were refused and are still watched
ButtonsOf(table) == {<<table[id].symbol, id>> : id \in DOMAIN table}

\* The process has started (lifespan) over a database: the API keys are read,
\* stale trades are swept, the watches are restored; memory is empty
\* otherwise. buttons are the Force Execute buttons still on display, key
\* is the API_KEY of the environment, observed are the watch ids for which
\* the answers of the provider are counted from this start on.
StartedObserving(db, buttons, key, observed) ==
    /\ api_key_set \in BOOLEAN
    /\ API_KEY = key
    /\ response = NoResponse
    /\ now = 1
    /\ watch_persist = db.watches
    /\ trades = cleanup_stale_open_trades(db.trades)
    /\ next_id = db.ids
    /\ force_buttons = buttons
    /\ \E pick \in Picks(db.watches) :
          /\ heap = RestoredHeap(db.watches, pick)
          /\ watch_trades = RestoredRegistry(db.watches, pick)
    /\ pending_trades = EmptyDict
    /\ published = EmptyDict
    /\ last_published = EmptyDict
    /\ req = [r \in Reqs |-> IdleRequest]
    /\ pl = IdlePipeline
    /\ waiting = <<>>
    /\ sched = IdleScheduler
    /\ last_market_data = EmptyDict
    /\ poll = NoPoll
    /\ watch_poll = NoPoll
    /\ fundamentals = NoFundamentals
    /\ verdicts = EmptyDict
    /\ gate = NoGateCall
    /\ expiry_sent = EmptyDict
    /\ close_reports = EmptyDict
    /\ mez = FirstTick
    /\ scan_metadata = EmptyDict
    /\ scan_deadline_alerted_today = {}
    /\ weekly_report_sent = FALSE
    /\ journal = NoJournal
    /\ tier3_usage = [id \in observed |-> 0]
    /\ send_errors = 0

\* a start with the API_KEY of the environment
StartedWithKey(db, buttons, key) == StartedObserving(db, buttons, key, {})

\* a start in the default configuration, in which API_KEY is not set
Started(db, buttons) == StartedWithKey(db, buttons, "")

\* the first start, or a start over the trades of earlier runs
Init == \E db \in {EmptyDatabase, OpenTrade, TwoOpenTrades, LostTrade} : Started(db, {})

\* /analyze and the pipeline, restart
Next ==
    \/ \E a \in AnalyzeRequests : Analyze(a[1], a[2])
    \/ PipelineStart
    \/ \E outcome \in ProviderOutcomes : Screen(outcome)
    \/ \E setups \in SetupLists : FullAnalysis(setups)
    \/ \E news_blocked \in BOOLEAN : AutoQueueStep(news_blocked)
    \/ PipelineFinish
    \/ \E pick \in Picks(watch_persist) : Restart(api_key_set, pick)

Spec == Init /\ [][Next]_vars

\* a start over the watches of earlier runs
InitConfirm == \E db \in {OneWatch, TwoWatches} : Started(db, {})

\* /confirm_entry from two clients at once, Force Execute, the expiry of
\* watches, restart
NextConfirm ==
    \/ \E r \in Reqs, symbol \in Symbols, trade_id \in KnownIds :
          ConfirmBegin(r, symbol, trade_id)
    \/ \E r \in Reqs, outcome \in ProviderOutcomes : ConfirmAnswer(r, outcome)
    \/ \E r \in Reqs : ConfirmComplete(r)
    \/ \E b \in force_buttons : ForceExecute(b[1], b[2])
    \/ \E hour \in Hours : SchedulerWake(hour)
    \/ \E key_set \in BOOLEAN, pick \in Picks(watch_persist) : Restart(key_set, pick)

SpecConfirm == InitConfirm /\ [][NextConfirm]_vars

\* a start over one watch of an earlier run whose Force Execute button is
\* still on display
InitQueue == Started(OneWatch, ButtonsOf(OneWatch.watches))

\* the queue over time: publication by Force Execute, the polls of the EAs,
\* their execution reports
NextQueue ==
    \/ \E b \in force_buttons : ForceExecute(b[1], b[2])
    \/ \E symbol \in Symbols : Poll(symbol)
    \/ Tick
    \/ \E id \in DOMAIN trades, status \in ExecutionStatuses :
          TradeExecuted(id, ExecutionReport(status, 0, 0))

SpecQueue == InitQueue /\ [][NextQueue]_vars

\* a start over the watches of two symbols
InitExpiry == Started(TwoSymbols, {})

\* the expiry loop over several watches, /confirm_entry beside it
NextExpiry ==
    \/ \E hour \in Hours : SchedulerWake(hour)
    \/ SchedulerStep
    \/ \E symbol \in Symbols, trade_id \in KnownIds : ConfirmBegin("r1", symbol, trade_id)
    \/ \E outcome \in ProviderOutcomes : ConfirmAnswer("r1", outcome)
    \/ ConfirmComplete("r1")

SpecExpiry == InitExpiry /\ [][NextExpiry]_vars

\* what a row of trades can be for the risk gate: executed and open, queued
\* and not yet executed, closed today at a loss
GateRow(symbol, bias, kind) ==
    CASE kind = "executed" -> TradeRow(symbol, bias, "executed", "open", 0, NotClosed)
      [] kind = "queued" -> TradeRow(symbol, bias, "queued", "open", 0, NotClosed)
      [] kind = "lost" -> TradeRow(symbol, bias, "closed", "loss", 0 - 400, 0)

GateRows ==
    {GateRow(symbol, bias, kind) :
        symbol \in ProfileSymbols, bias \in {"long", "short"},
        kind \in {"executed", "queued", "lost"}}

\* the tables of trades the gate is asked over: no row, one row, two rows
\* of which the second is an open trade, and each of these with the row of a
\* trade lost today
RecentTables ==
    {EmptyDict} \cup [{"t1"} -> GateRows]
        \cup {DictPut(table, "t2", GateRow(symbol, bias, "executed")) :
                 table \in [{"t1"} -> GateRows], symbol \in ProfileSymbols,
                 bias \in {"long", "short"}}

GateTables ==
    RecentTables \cup
        {DictPut(table, "t0", GateRow("GBPJPY", "long", "lost")) : table \in RecentTables}

\* a start over any of these tables, the API key set
InitGate == (\E table \in GateTables : Started(Database(EmptyDict, table, 0), {}))
            /\ api_key_set

\* check_risk_filters is called for a candidate: by _run_analysis for a
\* setup that qualifies, by the Execute button
RiskCheck(symbol, bias, news_blocked) ==
    /\ gate' = GateCall(symbol, bias, news_blocked,
                        risk_filters(trades, BalanceOf(symbol), symbol, bias,
                                     news_blocked))
    /\ UNCHANGED <<verdicts, fundamentals, watch_poll, periodic, tier3_usage,
                   send_errors, API_KEY, response,
                   api_key_set, now, next_id, heap, watch_trades, watch_persist,
                   pending_trades, published, last_published, force_buttons, req,
                   pl, waiting, sched, last_market_data, trades, poll, expiry_sent,
                   close_reports>>

\* the risk gate over the trades of the start, with the balances that
\* /analyze requests post
NextGate ==
    \/ \E request \in AnalyzeRequests : Analyze(request[1], request[2])
    \/ \E symbol \in ProfileSymbols, bias \in {"long", "short"}, news_blocked \in BOOLEAN :
          RiskCheck(symbol, bias, news_blocked)

SpecGate == InitGate /\ [][NextGate]_vars

\* the trade whose positions the EA reports closed
ReportedIds == {"t1"}

\* a start over two open trades, the API key set
InitTrades == Started(AgedTrades, {}) /\ api_key_set

\* the life of the trade records: the reports of the EAs, /reset, restarts
NextTrades ==
    \/ \E id \in DOMAIN trades, report \in ExecutionReports : TradeExecuted(id, report)
    \/ \E id \in ReportedIds, report \in CloseReports : TradeClosed(id, report)
    \/ Reset
    \/ Wait
    \/ \E pick \in Picks(watch_persist) : Restart(api_key_set, pick)

SpecTrades == InitTrades /\ [][NextTrades]_vars

\* the watches of two symbols confirmed one after the other, each queued
\* trade executed by the EA that polls its symbol and reported once
NextExposure ==
    \/ \E symbol \in Symbols, trade_id \in KnownIds : ConfirmBegin("r1", symbol, trade_id)
    \/ \E outcome \in ProviderOutcomes : ConfirmAnswer("r1", outcome)
    \/ ConfirmComplete("r1")
    \/ \E symbol \in DOMAIN pending_trades :
          /\ trades[pending_trades[symbol].id].status = "queued"
          /\ TradeExecuted(pending_trades[symbol].id, ExecutionReport("executed", 0, 0))

\* a start over two watches, each auto-queued while no trade was open, and
\* one trade opened since by the Execute button
InitExposure == Started(Database(TwoSymbols.watches, OpenTrade.trades, 2), {})

SpecExposure == InitExposure /\ [][NextExposure]_vars

\* Tier 0 over the days: the fetches that analyze_charts makes, the answers
\* of the provider
NextFetch ==
    \/ \E symbol \in Symbols : FetchBegin(symbol)
    \/ \E outcome \in {"text", "empty", "raise"} : FetchEnd(outcome)
    \/ NextDay

\* the first start
InitFetch == Started(EmptyDatabase, {})

SpecFetch == InitFetch /\ [][NextFetch]_vars

\* the polls of the EAs over time, before and after the one publication of
\* a watch by Force Execute
NextPolls ==
    \/ \E b \in force_buttons : Published(b[2]) = 0 /\ ForceExecute(b[1], b[2])
    \/ \E symbol \in Symbols : Poll(symbol)
    \/ \E symbol \in Symbols : WatchPoll(symbol)
    \/ Tick

SpecPolls == InitQueue /\ [][NextPolls]_vars

\* the paths requests are sent to, and the X-API-Key headers they carry: none,
\* the key of the deployment, another key
Paths == {"/health", "/webhook/telegram", "/public/stats", "/analyze",
          "/pending_trade", "/watch_trade", "/confirm_entry"}

Headers == {"", "k1", "k2"}

\* a start over one watch, API_KEY not set or set to k1
InitIngress ==
    \E key \in {"", "k1"} : StartedWithKey(OneWatch, ButtonsOf(OneWatch.watches), key)

\* requests with any header to the endpoints, each handler behind the
\* middleware; /confirm_entry as far as its first await
NextIngress ==
    \/ \E path \in Paths, header \in Headers : Unauthorized(path, header)
    \/ \E header \in Headers, path \in {"/health", "/public/stats"} :
          Authorized(path, header) /\ UNCHANGED vars
    \/ \E header \in Headers, text \in MarketDataTexts :
          Authorized("/analyze", header) /\ AnalyzePost(text)
    \/ \E header \in Headers, symbol \in Symbols :
          Authorized("/pending_trade", header) /\ Poll(symbol)
    \/ \E header \in Headers, symbol \in Symbols, trade_id \in KnownIds :
          Authorized("/confirm_entry", header) /\ ConfirmBegin("r1", symbol, trade_id)
    \/ \E header \in Headers, symbol \in Symbols :
          Authorized("/watch_trade", header) /\ WatchPoll(symbol)
    \/ \E header \in Headers, b \in force_buttons :
          Authorized("/webhook/telegram", header) /\ ForceExecute(b[1], b[2])

SpecIngress == InitIngress /\ [][NextIngress]_vars

\* a start on a Saturday with no scan recorded
InitJobs == Started(EmptyDatabase, {}) /\ api_key_set

\* the scans of the day: /analyze and a pipeline whose screener finds no
\* setup
NextScans ==
    \/ Analyze("GBPJPY", 10000)
    \/ PipelineStart
    \/ \E text \in ReasoningTexts : Screen(Json("false", text))
    \/ PipelineFinish

\* the periodic jobs of one process run, beside the scans
NextWeekly ==
    \/ PeriodicJobs
    \/ NextScans

SpecWeekly == InitJobs /\ [][NextWeekly]_vars

\* the periodic jobs over restarts
NextJobs ==
    \/ PeriodicJobs
    \/ NextScans
    \/ \E pick \in Picks(watch_persist) : Restart(api_key_set, pick)

SpecJobs == InitJobs /\ [][NextJobs]_vars

\* a start over one watch of an earlier run, with the key of the provider, the
\* calls of the confirmation model counted from this start on
InitCost ==
    StartedObserving(OneWatch, {}, "", DOMAIN OneWatch.watches) /\ api_key_set

\* the calls of the confirmation model that were made for the watch, as far
\* as they are counted
Tier3Usage(id) == IF id \in DOMAIN tier3_usage THEN tier3_usage[id] ELSE 0

\* /confirm_entry from two clients, whatever the provider returns, and the
\* expiry of the watch
NextCost ==
    \/ \E r \in Reqs, symbol \in Symbols, trade_id \in KnownIds :
          Tier3Usage(trade_id) < MaxCalls /\ ConfirmBegin(r, symbol, trade_id)
    \/ \E r \in Reqs, outcome \in ProviderOutcomes : ConfirmAnswer(r, outcome)
    \/ \E r \in Reqs : ConfirmComplete(r)
    \/ \E hour \in Hours : SchedulerWake(hour)

SpecCost == InitCost /\ [][NextCost]_vars

\* a start over the watches of two symbols, or over an empty database
InitFaults == \E db \in {TwoSymbols, EmptyDatabase} : Started(db, {}) /\ api_key_set

\* /confirm_entry, the expiry loop and the pipeline of one symbol over a
\* database whose writes can fail
NextFaults ==
    \/ \E symbol \in Symbols, trade_id \in KnownIds : ConfirmBegin("r1", symbol, trade_id)
    \/ \E flag \in {"true", "false"} : ConfirmAnswer("r1", Json(flag, <<>>))
    \/ ConfirmComplete("r1")
    \/ ConfirmCompleteStoreDown("r1")
    \/ \E hour \in Hours : SchedulerWake(hour)
    \/ SchedulerStep
    \/ \E hour \in Hours : SchedulerWakeStoreDown(hour)
    \/ SchedulerStepStoreDown
    \/ Analyze("GBPJPY", 10000)
    \/ PipelineStart
    \/ Screen(Garbage)
    \/ FullAnalysis(<<Setup("short", Score7, "low")>>)
    \/ \E news_blocked \in BOOLEAN : AutoQueueStep(news_blocked)
    \/ \E news_blocked \in BOOLEAN : AutoQueueStoreDown(news_blocked)
    \/ PipelineFinish

SpecFaults == InitFaults /\ [][NextFaults]_vars

\* a start over one watch of an earlier run
InitSends == Started(OneWatch, {}) /\ api_key_set

\* the close report of a trade that hit its stop
StopReport == CloseReport("sl", 0 - 75)

\* the operations that send through the messenger, each send returning
\* (delivered) or raising: the pipeline ...
PipelineNotifying(delivered) ==
    \/ \E news_blocked \in BOOLEAN, sent \in delivered :
          AutoQueueStepSending(news_blocked, sent)
    \/ \E sent \in delivered : PipelineFinishSending(sent)

\* ... and /confirm_entry, the expiry loop, /trade_executed for a queued
\* trade and /trade_closed, once per trade
Notifying(delivered) ==
    \/ \E symbol \in Symbols, trade_id \in KnownIds, sent \in delivered :
          ConfirmBeginSending("r1", symbol, trade_id, sent)
    \/ \E sent \in delivered : ConfirmCompleteSending("r1", sent)
    \/ \E hour \in Hours, sent \in delivered : SchedulerWakeSending(hour, sent)
    \/ \E sent \in delivered : SchedulerStepSending(sent)
    \/ \E id \in DOMAIN trades, sent \in delivered :
          /\ trades[id].status = "queued"
          /\ TradeExecutedSending(id, ExecutionReport("executed", 0, 0), sent)
    \/ \E id \in DOMAIN trades, sent \in delivered :
          /\ Applied(id, StopReport) = 0
          /\ TradeClosedSending(id, StopReport, sent)

\* the operations with a messenger that can fail, and the steps between
\* them; one /analyze comes in
NextSends ==
    \/ PipelineNotifying(BOOLEAN)
    \/ Notifying(BOOLEAN)
    \/ last_market_data = EmptyDict /\ Analyze("GBPUSD", 0)
    \/ PipelineStart
    \/ Screen(Garbage)
    \/ FullAnalysis(<<Setup("short", Score7, "low")>>)
    \/ ConfirmAnswer("r1", Json("true", <<>>))

SpecSends == InitSends /\ [][NextSends]_vars

\* an iteration of the auto-queue loop is made: the loop index of the task
\* that holds the lock moves on
LoopAdvances ==
    /\ pl.pc = "loop"
    /\ pl.idx <= Len(pl.setups)
    /\ \E news_blocked \in BOOLEAN :
          pl' = [pl EXCEPT !.idx = pl.idx + 1, !.news_blocked = news_blocked]

\* /analyze for either symbol and the pipeline, whose steps inside the lock
\* can end by an exception; a full analysis answers with no more setups than
\* there are identifiers left
NextLock ==
    \/ \E a \in AnalyzeRequests : Analyze(a[1], a[2])
    \/ PipelineStart
    \/ \E outcome \in ProviderOutcomes : Screen(outcome)
    \/ \E setups \in SetupLists :
          next_id + Len(setups) <= MaxIds /\ FullAnalysis(setups)
    \/ \E news_blocked \in BOOLEAN : AutoQueueStep(news_blocked)
    \/ PipelineFinish
    \/ PipelineRaise

\* The event loop runs every task that can run: the task at the head of the
\* waiters acquires a free lock, and each await of the task inside the lock
\* returns (analyze_charts, check_risk_filters, the sends); that it raises
\* is possible and never required.
SpecLock ==
    /\ InitJobs
    /\ [][NextLock]_vars
    /\ WF_vars(PipelineStart)
    /\ WF_vars(\E outcome \in ProviderOutcomes : Screen(outcome))
    /\ WF_vars(\E setups \in SetupLists :
                  next_id + Len(setups) <= MaxIds /\ FullAnalysis(setups))
    /\ WF_pl(LoopAdvances)
    /\ WF_vars(PipelineFinish)

\* ------------------------------------------------------------------ claims
\* C1: in every reachable state the registry holds, for every symbol, at most
\* one WatchTrade of that symbol whose status is watching.
AtMostOneWatchingPerSymbol ==
    \A symbol \in Symbols :
        Cardinality({k \in DOMAIN watch_trades :
                        /\ heap[watch_trades[k]].symbol = symbol
                        /\ heap[watch_trades[k]].status = "watching"}) <= 1

\* C1, its case: a second watch of a symbol has been created while the row of
\* the first was still persisted, and the registry holds a watching watch
SecondWatchOfSymbol ==
    \E k \in DOMAIN watch_trades :
        /\ heap[watch_trades[k]].status = "watching"
        /\ Cardinality({id \in DOMAIN watch_persist :
                           watch_persist[id].symbol = heap[watch_trades[k]].symbol}) >= 2

\* C2: confirmations_used never exceeds max_confirmations, whatever
\* /confirm_entry requests are in flight.
ConfirmationsWithinMax ==
    \A id \in DOMAIN heap :
        heap[id].confirmations_used <= heap[id].max_confirmations

\* C3 as the spec states it: when a counted answer of the model brings
\* confirmations_used to max_confirmations, the watch is rejected as soon as
\* the request completes.
RejectedWheneverMaxReached ==
    [][\A r \in Reqs :
          (/\ req[r].pc = "notify"
           /\ req'[r].pc = "answered"
           /\ req[r].answer \in {"true", "false"}
           /\ ~req[r].transient
           /\ req[r].remaining = 0)
          => (req[r].id \in DOMAIN heap' /\ heap'[req[r].id].status = "rejected")]_vars

\* C3 as the code has it: when a counted answer of the model that refuses the
\* entry brings confirmations_used to max_confirmations, the watch is
\* rejected as soon as the request completes; an answer that confirms the
\* entry on the last attempt leaves it confirmed.
RejectedAfterLastRefusal ==
    [][\A r \in Reqs :
          (/\ req[r].pc = "notify"
           /\ req'[r].pc = "answered"
           /\ req[r].answer \in {"true", "false"}
           /\ ~req[r].transient
           /\ req[r].remaining = 0)
          => /\ req[r].id \in DOMAIN heap'
             /\ heap'[req[r].id].status =
                    IF req[r].confirmed THEN "confirmed" ELSE "rejected"]_vars

\* C3, its case: a watch was refused on its last attempt, its request is
\* over, it is rejected and its row is gone
RefusedOnLastAttempt ==
    \E id \in DOMAIN heap :
        /\ heap[id].status = "rejected"
        /\ heap[id].confirmations_used = heap[id].max_confirmations
        /\ id \notin DOMAIN watch_persist
        /\ \E r \in Reqs : req[r].pc = "answered"
        /\ \A r \in Reqs : req[r].pc \in {"idle", "answered"}

OnlyRealAnswersCount ==
    [][\A r \in Reqs :
          /\ (req[r].pc = "model" /\ req'[r].pc = "notify")
             => /\ req'[r].answer \in {"raise", "garbage"} => ~req'[r].confirmed
                /\ heap'[req[r].id].confirmations_used =
                       heap[req[r].id].confirmations_used
                           + (IF req'[r].answer \in {"true", "false"} THEN 1 ELSE 0)
          /\ (req[r].pc = "notify" /\ req'[r].pc = "answered"
                 /\ req[r].answer \in {"raise", "garbage"})
             => /\ heap'[req[r].id].status = heap[req[r].id].status
                /\ published' = published]_vars

\* C9: without an API key every /confirm_entry request answers
\* confirmed = false, so that no watch is confirmed and nothing is published
\* by it.
NoKeyDenies ==
    \A r \in Reqs : (~api_key_set /\ req[r].pc = "notify") => ~req[r].confirmed

\* C5: a published PendingTrade that no later publication of its symbol has
\* replaced is what get_pending_trade answers from queued_at up to and
\* including queued_at + TTL, and get_pending_trade answers None after that.
TtlWindow ==
    \A symbol \in DOMAIN last_published :
        LET p == last_published[symbol]
        IN get_pending_trade(pending_trades, symbol).trade =
               IF now <= p.queued_at + PENDING_TRADE_TTL_SECONDS THEN p ELSE NoTrade

\* C5, its case: the clock stands on the last second of the window, the
\* entry is still queued and a poll has answered it
LastSecondOfWindow ==
    \E symbol \in DOMAIN last_published :
        /\ now = last_published[symbol].queued_at + PENDING_TRADE_TTL_SECONDS
        /\ symbol \in DOMAIN pending_trades
        /\ pending_trades[symbol] = last_published[symbol]
        /\ poll = [symbol |-> symbol, id |-> last_published[symbol].id]

\* C6: within the TTL of the last entry published for a symbol every poll of
\* /pending_trade for that symbol answers that entry's id, whatever polls and
\* execution reports came before, and a step that records an execution
\* report leaves the queue as it was.
Broadcast ==
    [][/\ \A symbol \in Symbols :
              (/\ Poll(symbol)
               /\ symbol \in DOMAIN last_published
               /\ now <= last_published[symbol].queued_at + PENDING_TRADE_TTL_SECONDS)
              => poll'.id = last_published[symbol].id
       /\ (trades' # trades /\ published' = published)
              => pending_trades' = pending_trades]_vars

\* C6, its case: the execution of the entry has been reported, time has
\* passed, and within the TTL a poll has the entry's id while the entry is
\* still queued
ServedAfterExecution ==
    \E symbol \in DOMAIN last_published :
        LET p == last_published[symbol]
        IN /\ p.id \in DOMAIN trades
           /\ trades[p.id].status = "executed"
           /\ now > p.queued_at
           /\ now <= p.queued_at + PENDING_TRADE_TTL_SECONDS
           /\ poll = [symbol |-> symbol, id |-> p.id]
           /\ symbol \in DOMAIN pending_trades
           /\ pending_trades[symbol] = p

\* C7: an iteration of the auto-queue loop creates a WatchTrade from its
\* setup exactly when the parsed checklist number is at least
\* AUTO_QUEUE_MIN_CHECKLIST and check_risk_filters passes; a setup whose
\* number is below 4, or 0 for a score that does not parse, creates none.
AutoQueueIff ==
    [][(pl.pc = "loop" /\ pl'.pc = "loop" /\ pl'.idx = pl.idx + 1)
       => LET setup == pl.setups[pl.idx]
              id == WatchId(next_id + 1)
              created == /\ id \in DOMAIN heap' \ DOMAIN heap
                         /\ heap'[id].symbol = pl.symbol
                         /\ heap'[id].bias = setup.bias
                         /\ heap'[id].checklist_score = setup.checklist_score
                         /\ heap'[id].status = "watching"
                         /\ watch_trades'[pl.symbol] = id
              untouched == heap' = heap /\ watch_trades' = watch_trades
                               /\ watch_persist' = watch_persist
          IN /\ created <=>
                   /\ parse_checklist_score(setup.checklist_score)
                          >= AUTO_QUEUE_MIN_CHECKLIST
                   /\ check_risk_filters(pl.symbol, setup.bias, pl'.news_blocked)
             /\ created \/ untouched
             /\ parse_checklist_score(setup.checklist_score) < 4 => untouched]_vars

\* C7, its case: the loop is past a list of two setups and the registry holds
\* the watch made from the second of them
WatchFromSecondSetup ==
    /\ pl.pc = "loop"
    /\ Len(pl.setups) = 2
    /\ pl.idx = 3
    /\ pl.symbol \in DOMAIN watch_trades
    /\ watch_trades[pl.symbol] = WatchId(next_id)
    /\ heap[WatchId(next_id)].checklist_score = pl.setups[2].checklist_score
    /\ heap[WatchId(next_id)].bias = pl.setups[2].bias
    /\ heap[WatchId(next_id)].status = "watching"

\* C10: when screen_charts returns, the pipeline goes on to the full analysis
\* unless a model is configured and its answer parsed with has_setup false
\* or absent: an exception, an answer that does not parse and a missing API
\* key all lead to Tier 2.
ScreenerFailsOpen ==
    [][(pl.pc = "screening" /\ pl'.pc \in {"tier2", "loop"})
       => (pl'.pc = "loop" <=>
              /\ api_key_set
              /\ pl'.screening.kind = "json"
              /\ pl'.screening.flag \in {"false", "absent"})]_vars

\* C10, its case: the answer of the screener did not parse and the pipeline
\* is in the full analysis
UnparsedScreeningInTier2 ==
    /\ api_key_set
    /\ pl.pc = "tier2"
    /\ pl.screening.kind = "garbage"

\* /trade_closed applies a report to a record: the step that counts it
Applies(id, report) == Applied(id, report)' = Applied(id, report) + 1

\* a /trade_closed report resolves the record it is applied to: the call of
\* log_trade_closed finds is_closed true
Resolves(id, report) ==
    /\ Applies(id, report)
    /\ is_closed(trades'[id], report)

\* C11 as the spec states it: whenever log_trade_closed resolves a record,
\* SL alone gives -sl_pips and loss, TP1 with SL gives tp1_pips and
\* partial_win, TP1 with TP2 gives tp1_pips + tp2_pips and full_win.
ResolutionByFlagsAsStated ==
    [][\A id \in DOMAIN trades, report \in CloseReports :
          Resolves(id, report) =>
              LET r == trades'[id]
              IN /\ (r.sl_hit /\ ~r.tp1_hit /\ ~r.tp2_hit) =>
                        (r.pnl_pips = 0 - r.sl_pips /\ r.outcome = "loss")
                 /\ (r.tp1_hit /\ r.sl_hit) =>
                        (r.pnl_pips = r.tp1_pips /\ r.outcome = "partial_win")
                 /\ (r.tp1_hit /\ r.tp2_hit) =>
                        (r.pnl_pips = r.tp1_pips + r.tp2_pips /\ r.outcome = "full_win")]_vars

\* a record is resolved: closed, with the outcome and the pnl_pips that
\* log_trade_closed derives from its flags or from a cancellation
Resolved(trade) ==
    /\ trade.status = "closed"
    /\ \E report \in CloseReports :
          is_closed(trade, report) /\ Resolution(trade, report) = trade

\* C12 as the spec states it: a /trade_closed report that was applied to a
\* record before and is applied again when the record is resolved adds its
\* profit to pnl_money and leaves outcome and pnl_pips as they were.
ReplayKeepsOutcome ==
    [][\A id \in DOMAIN trades, report \in CloseReports :
          (/\ Applies(id, report)
           /\ Applied(id, report) > 0
           /\ Resolved(trades[id])) =>
              /\ trades'[id].pnl_money = trades[id].pnl_money + report.profit
              /\ trades'[id].outcome = trades[id].outcome
              /\ trades'[id].pnl_pips = trades[id].pnl_pips
              /\ trades'[id].status = "closed"]_vars

\* C13: once /trade_executed has applied a report, applying the same report
\* again leaves the record as it is.
ExecutedTwiceAsOnce ==
    [][\A id \in DOMAIN trades, report \in ExecutionReports :
          TradeExecuted(id, report) =>
              log_trade_executed(trades', id, report) = trades']_vars

\* C13, its case: an execution report was applied to a record that carries
\* money of an earlier close report
ExecutedWithMoney ==
    \E id \in DOMAIN trades :
        /\ trades[id].status = "executed"
        /\ trades[id].actual_entry = 1
        /\ trades[id].ticket_tp1 = 7
        /\ trades[id].pnl_money # 0

\* the start-up sweep takes a record: open and created before the cutoff
Stale(trade) ==
    /\ trade.outcome = "open"
    /\ trade.created_at < now - STALE_MAX_AGE_HOURS * 3600

\* the status of a record becomes closed
Closes(id) == trades[id].status # "closed" /\ trades'[id].status = "closed"

Restarts == \E key_set \in BOOLEAN, pick \in Picks(watch_persist) : Restart(key_set, pick)

\* C15 as the spec states it: a restart puts every persisted watching watch
\* into the registry with status watching, leaves open every open record
\* that is not older than the threshold, and closes by its sweep exactly the
\* open records that are older.
RecoveryRestoresAll ==
    [][Restarts =>
          /\ \A id \in load_active_watches(watch_persist) :
                /\ \E k \in DOMAIN watch_trades' : watch_trades'[k] = id
                /\ id \in DOMAIN heap'
                /\ heap'[id].status = "watching"
          /\ \A id \in DOMAIN trades :
                IF Stale(trades[id])
                THEN trades'[id].status = "closed" /\ trades'[id].outcome = "closed"
                ELSE trades'[id] = trades[id]]_vars

\* the statuses a watch ends in
TerminalStatuses == {"confirmed", "rejected", "expired"}

\* C16 as the spec states it: when an operation takes a watch from watching
\* to confirmed, rejected or expired, the row of the watch is absent from
\* watch_trades_persist once the operation has completed.
TerminalWatchNotPersisted ==
    [][\A id \in DOMAIN heap :
          (/\ heap[id].status = "watching"
           /\ id \in DOMAIN heap'
           /\ heap'[id].status \in TerminalStatuses) =>
              id \notin DOMAIN watch_persist']_vars

\* what a step of the expiry loop at the hour h does to the watches of the
\* registry: before the end of its kill zone a watching watch stays watching
\* and nothing is sent; a watch expires only at or after the end, with one
\* notification, the only one ever sent for it; nothing is sent for a watch
\* that is not watching; when the pass over the registry is complete no
\* watch whose kill zone has ended is still watching
ExpiryStep(h) ==
    \A k \in DOMAIN watch_trades :
        LET id == watch_trades[k]
        IN /\ (heap[id].status = "watching" /\ h < KillZoneEnd(heap[id].symbol)) =>
                  (heap'[id].status = "watching" /\ Sent(id)' = Sent(id))
           /\ (heap[id].status = "watching" /\ heap'[id].status # "watching") =>
                  /\ h >= KillZoneEnd(heap[id].symbol)
                  /\ heap'[id].status = "expired"
                  /\ Sent(id) = 0
                  /\ Sent(id)' = 1
           /\ heap[id].status # "watching" => Sent(id)' = Sent(id)
           /\ (sched'.pc = "idle" /\ h >= KillZoneEnd(heap[id].symbol)) =>
                  heap'[id].status # "watching"

\* C17: a watching watch keeps its status on every scheduler tick whose hour
\* is before the end of the kill zone of its symbol; the first tick at or
\* after the end makes it expired and sends the expiry notification, once;
\* later ticks send nothing for it.
KillZoneExpiry ==
    [][/\ \A hour \in Hours : SchedulerWake(hour) => ExpiryStep(hour)
       /\ SchedulerStep => ExpiryStep(sched.hour)]_vars

\* C17, its case: a tick at or after 11:00 and before 20:00 is over; the
\* watch of GBPUSD has expired with one notification, the watch of GBPJPY,
\* whose kill zone ends at 20:00, is still watching
ExpiredOneKeptOne ==
    /\ sched.pc = "idle"
    /\ \E a, b \in DOMAIN watch_trades :
          /\ heap[watch_trades[a]].symbol = "GBPUSD"
          /\ heap[watch_trades[a]].status = "expired"
          /\ Sent(watch_trades[a]) = 1
          /\ heap[watch_trades[b]].symbol = "GBPJPY"
          /\ heap[watch_trades[b]].status = "watching"
          /\ Sent(watch_trades[b]) = 0

\* a trade gives a currency long exposure: long XXXYYY is long XXX and
\* short YYY, short XXXYYY is short XXX and long YYY
LongIn(currency, symbol, bias) ==
    \/ currency = BaseCurrency(symbol) /\ bias = "long"
    \/ currency = QuoteCurrency(symbol) /\ bias # "long"

ShortIn(currency, symbol, bias) ==
    \/ currency = BaseCurrency(symbol) /\ bias # "long"
    \/ currency = QuoteCurrency(symbol) /\ bias = "long"

\* some open trade on a different symbol gives the base or the quote
\* currency of the candidate the exposure the candidate would give it
SameExposureElsewhere(symbol, bias) ==
    \E id \in get_open_trades(trades) :
        /\ trades[id].symbol # symbol
        /\ \E currency \in {BaseCurrency(symbol), QuoteCurrency(symbol)} :
              \/ /\ LongIn(currency, symbol, bias)
                 /\ LongIn(currency, trades[id].symbol, trades[id].bias)
              \/ /\ ShortIn(currency, symbol, bias)
                 /\ ShortIn(currency, trades[id].symbol, trades[id].bias)

\* C18: for every candidate and every table of open trades the correlation
\* rule denies exactly when some open trade on a different symbol gives the
\* same directional exposure to the base or the quote currency of the
\* candidate; the gate names the correlation only then, and does so whenever
\* this holds and no earlier rule denies; trades on the symbol of the
\* candidate alone never make the gate deny on correlation.
CorrelationRule ==
    /\ \A symbol \in ProfileSymbols, bias \in {"long", "short"} :
          check_correlation_conflict(trades, symbol, bias)
              <=> SameExposureElsewhere(symbol, bias)
    /\ gate # NoGateCall =>
          /\ gate.answer.reason = "Correlation" =>
                SameExposureElsewhere(gate.symbol, gate.bias)
          /\ gate.answer.passed => ~SameExposureElsewhere(gate.symbol, gate.bias)
          /\ (\A id \in get_open_trades(trades) : trades[id].symbol = gate.symbol) =>
                gate.answer.reason # "Correlation"

\* C18, its case: over an open long GBPJPY the gate has denied a long GBPUSD
\* on correlation
LongGbpTwice ==
    /\ gate.symbol = "GBPUSD" /\ gate.bias = "long"
    /\ gate.answer = GateAnswer(FALSE, "Correlation")
    /\ \E id \in get_open_trades(trades) :
          trades[id].symbol = "GBPJPY" /\ trades[id].bias = "long"

\* the rules of the gate, each by itself
NewsDenies(news_blocked) == news_blocked

DrawdownDenies(symbol) ==
    /\ symbol \in DOMAIN last_market_data
    /\ last_market_data[symbol] > 0
    /\ Abs(Min(0, get_daily_pnl(trades))) * 100
           >= MAX_DAILY_DRAWDOWN_PCT * last_market_data[symbol]

MaxTradesDenies == Cardinality(get_open_trades(trades)) >= MAX_OPEN_TRADES

CorrelationDenies(symbol, bias) == check_correlation_conflict(trades, symbol, bias)

\* C19: a call of check_risk_filters names the first rule that denies in
\* the order news, drawdown, max open trades, correlation; it returns
\* (true, "") exactly when no rule denies; it leaves the trade records, the
\* registry, the persisted watches, the queue and the market data as they are.
FirstDenyWins ==
    [][gate' # gate =>
          LET answer == gate'.answer
              news == NewsDenies(gate'.news_blocked)
              drawdown == DrawdownDenies(gate'.symbol)
              max == MaxTradesDenies
              correlation == CorrelationDenies(gate'.symbol, gate'.bias)
          IN /\ answer.reason = "News" <=> news
             /\ answer.reason = "Drawdown" <=> (~news /\ drawdown)
             /\ answer.reason = "Max trades" <=> (~news /\ ~drawdown /\ max)
             /\ answer.reason = "Correlation" <=>
                    (~news /\ ~drawdown /\ ~max /\ correlation)
             /\ answer.reason = "" <=>
                    (~news /\ ~drawdown /\ ~max /\ ~correlation)
             /\ answer.passed <=> answer.reason = ""
             /\ UNCHANGED <<trades, heap, watch_trades, watch_persist,
                            pending_trades, published, last_published,
                            last_market_data>>]_vars

\* C19, its case: the gate was asked about a candidate that the drawdown
\* and the correlation both deny, and it named the drawdown
DrawdownBeforeCorrelation ==
    /\ gate # NoGateCall
    /\ ~gate.news_blocked
    /\ DrawdownDenies(gate.symbol)
    /\ CorrelationDenies(gate.symbol, gate.bias)
    /\ gate.answer = GateAnswer(FALSE, "Drawdown")

\* the checklist numbers of a twelve-point checklist
ChecklistNumbers == 0..12

Handled(path) ==
    CASE path = "/analyze" -> \E text \in MarketDataTexts : AnalyzePost(text)
      [] path = "/pending_trade" -> \E symbol \in Symbols : Poll(symbol)
      [] path = "/confirm_entry" ->
            \E symbol \in Symbols, trade_id \in KnownIds :
                ConfirmBegin("r1", symbol, trade_id)
      [] path = "/watch_trade" -> \E symbol \in Symbols : WatchPoll(symbol)
      [] path = "/webhook/telegram" ->
            \E b \in force_buttons : ForceExecute(b[1], b[2])
      [] OTHER -> UNCHANGED vars

\* a request for path carrying header is served
Served(path, header) ==
    \/ Unauthorized(path, header)
    \/ Authorized(path, header) /\ Handled(path)

\* the paths the middleware does not protect
Exempt(path) ==
    path \in {"/health", "/webhook/telegram"} \/ StartsWith(path, "/public/")

\* the request is answered 401 and nothing else changes
Rejected(path) ==
    /\ response' = [path |-> path, status |-> 401]
    /\ UNCHANGED <<verdicts, fundamentals, watch_poll, periodic, tier3_usage,
                   send_errors, api_key_set, now, next_id, heap, watch_trades,
                   watch_persist,
                   pending_trades, published, last_published, force_buttons, req,
                   pl, waiting, sched, last_market_data, trades, poll, gate,
                   expiry_sent, close_reports, API_KEY>>

\* C21 as stated: whatever API_KEY is, a request to a protected path whose
\* X-API-Key is absent or is not API_KEY is answered 401 and runs no handler.
KeyRequiredAlways ==
    [][\A path \in Paths, header \in Headers :
          (~Exempt(path) /\ header # API_KEY /\ Served(path, header))
              => Rejected(path)]_vars

\* C21: when API_KEY is set, a request to a protected path whose X-API-Key is
\* absent or is not API_KEY is answered 401 and runs no handler; when API_KEY
\* is not set, the middleware refuses no request.
KeyRequiredWhenSet ==
    [][IF API_KEY = ""
       THEN response' # response => response'.status # 401
       ELSE \A path \in Paths, header \in Headers :
               (~Exempt(path) /\ header # API_KEY /\ Served(path, header))
                   => Rejected(path)]_vars

\* a request to /analyze was refused for its key
AnalyzeRefused == API_KEY = "k1" /\ response = [path |-> "/analyze", status |-> 401]

\* /confirm_entry is asked for a watch the registry does not hold for the
\* symbol, or holds under another id, or holds with a status that is not
\* watching
StateConflict(symbol, trade_id) ==
    \/ symbol \notin DOMAIN watch_trades
    \/ watch_trades[symbol] # trade_id
    \/ heap[trade_id].status # "watching"

\* C22: a /confirm_entry request in state conflict is answered 404, is not
\* passed to the model, and leaves every watch, the registry, the trade queue
\* and the persisted watches as they were.
ConflictRefusedWith404 ==
    [][\A r \in Reqs, symbol \in Symbols, trade_id \in KnownIds :
          (StateConflict(symbol, trade_id) /\ ConfirmBegin(r, symbol, trade_id))
              => /\ response' = [path |-> "/confirm_entry", status |-> 404]
                 /\ req'[r].pc # "model"
                 /\ UNCHANGED <<heap, watch_trades, pending_trades, watch_persist>>]_vars

\* what the polling endpoints would answer for every symbol, computed over
\* the queue and the registry given
Answers(queue, registry, objects) ==
    [symbol \in Symbols |->
        <<get_pending_trade(queue, symbol).trade,
          IF symbol \in DOMAIN registry /\ objects[registry[symbol]].status = "watching"
          THEN registry[symbol] ELSE "">>]

\* a poll answers what the state before it holds, and a poll right after it
\* would answer the same
SameAnswerAgain(symbol) ==
    /\ Poll(symbol) => poll'.id = get_pending_trade(pending_trades, symbol).trade.id
    /\ WatchPoll(symbol) => watch_poll'.id = watch_trade_endpoint(symbol)
    /\ Answers(pending_trades', watch_trades', heap')
           = Answers(pending_trades, watch_trades, heap)

\* C23 as stated: a poll of /pending_trade or /watch_trade leaves the queue,
\* the registry, the watches and the tables as they were, also when the
\* queue holds an entry older than the TTL, and a second poll right after it
\* has the same answer.
PollsReadOnly ==
    [][\A symbol \in Symbols :
          (Poll(symbol) \/ WatchPoll(symbol))
              => /\ UNCHANGED <<pending_trades, watch_trades, heap, watch_persist, trades>>
                 /\ SameAnswerAgain(symbol)]_vars

\* C23: a poll of /watch_trade leaves the queue, the registry, the watches
\* and the tables as they were; a poll of /pending_trade does so except that
\* it removes the entry of the symbol polled when that entry is older than
\* the TTL; a second poll right after either has the same answer.
PollsEvictOnly ==
    [][\A symbol \in Symbols :
          (Poll(symbol) \/ WatchPoll(symbol))
              => /\ UNCHANGED <<watch_trades, heap, watch_persist, trades>>
                 /\ pending_trades' =
                        IF /\ Poll(symbol)
                           /\ symbol \in DOMAIN pending_trades
                           /\ Expired(pending_trades[symbol])
                        THEN DictPop(pending_trades, symbol)
                        ELSE pending_trades
                 /\ SameAnswerAgain(symbol)]_vars

\* C23, its case: the entry published for a symbol grew older than the TTL,
\* a poll answered none and removed it, and /watch_trade was polled too
ExpiredEntryPolled ==
    \E symbol \in DOMAIN last_published :
        /\ now > last_published[symbol].queued_at + PENDING_TRADE_TTL_SECONDS
        /\ symbol \notin DOMAIN pending_trades
        /\ poll = [symbol |-> symbol, id |-> ""]
        /\ watch_poll.symbol = symbol

\* C24: with the provider's key set, once two Tier-0 fetches were made for a
\* symbol on a date, exactly one call of the provider was made for that
\* symbol and date, whatever the first fetch came to.
OneCallPerSymbolAndDay ==
    \A key \in DOMAIN fundamentals.fetches :
        (api_key_set /\ fundamentals.fetches[key] >= 2 /\ fundamentals.task = "")
            => Count(fundamentals.calls, key) = 1

\* a handler of /confirm_entry holds the watch
InFlight(requests, id) ==
    \E r \in Reqs : requests[r].pc \in {"model", "notify"} /\ requests[r].id = id

\* the third of three calls for a watch returns, each of the three with a
\* counted confirmed = false; no other call for it is under way or returned
\* with confirmed = true, and Force Execute was not pressed for it yet
ThirdRefusalReturns(id) ==
    /\ Verdicts(id).refused = 2
    /\ Published(id) = 0
    /\ id \in DOMAIN verdicts'
    /\ verdicts'[id] = [refused |-> 3, confirmed |-> 0]
    /\ ~InFlight(req', id)

MalformedAnalyzeRejected ==
    [][\A text \in MarketDataTexts :
          (~ParseMarketData(text).ok /\ AnalyzePost(text))
              => /\ response' = [path |-> "/analyze", status |-> 400]
                 /\ UNCHANGED <<last_market_data, waiting, pl, watch_trades, heap,
                                watch_persist, pending_trades, trades>>]_vars

\* C26, its case: a malformed /analyze was answered 400 after a well-formed
\* one had stored its market data and started a pipeline
MalformedAfterAccepted ==
    /\ response = [path |-> "/analyze", status |-> 400]
    /\ last_market_data # EmptyDict
    /\ waiting # <<>>

\* C27: a /confirm_entry request whose watch is no longer watching when the
\* request resumes after the model's answer (the scheduler expired it, or
\* another request or a press rejected or confirmed it) changes neither the
\* watch's status nor the trade queue.
LateAnswerChangesNothing ==
    [][\A r \in Reqs :
          (ConfirmComplete(r) /\ heap[req[r].id].status # "watching")
              => /\ pending_trades' = pending_trades
                 /\ req[r].id \in DOMAIN heap'
                 /\ heap'[req[r].id].status = heap[req[r].id].status]_vars

\* C28: in every reachable state at most MAX_OPEN_TRADES trades are open
\* (outcome open, status executed or pending), every queued trade being
\* executed and reported once.
OpenTradesWithinMax == Cardinality(get_open_trades(trades)) <= MAX_OPEN_TRADES


\* a /trade_executed report applied to the record of a trade id: the step of
\* log_trade_executed, which leaves the count of /trade_closed reports alone
ExecutionApplied(id) ==
    /\ close_reports' = close_reports
    /\ \E report \in ExecutionReports : trades' = log_trade_executed(trades, id, report)

\* a /trade_closed report applied to the record of a trade id
CloseApplied(id) == \E report \in CloseReports : Applies(id, report)

\* C29 as the spec states it: the lifecycle of a TradeRecord only moves
\* forward. A /trade_executed report for a closed record leaves its status
\* closed and its outcome unchanged, and a /trade_closed report never closes
\* a record that was not first reported executed or pending.
LifecycleOnlyForward ==
    [][\A id \in DOMAIN trades :
          /\ (trades[id].status = "closed" /\ ExecutionApplied(id)) =>
                 /\ trades'[id].status = "closed"
                 /\ trades'[id].outcome = trades[id].outcome
          /\ (trades[id].status \notin {"executed", "pending", "closed"} /\ CloseApplied(id)) =>
                 trades'[id].status # "closed"]_vars


\* C30 as the spec states it: every mutation of a watch by /confirm_entry is
\* persisted, so a watch restored at start-up has the confirmations_used it
\* had in memory before the restart.
RestoredConfirmationsKept ==
    [][Restarts =>
          \A id \in DOMAIN heap \cap DOMAIN heap' :
              heap'[id].confirmations_used = heap[id].confirmations_used]_vars


\* the outcomes of a resolved record as the spec names them
ResolvedOutcomes == {"loss", "full_win", "partial_win", "cancelled"}

\* C38 as the spec states it: once a record is resolved (status closed with
\* outcome loss, full_win, partial_win or cancelled), a later /trade_closed
\* report of any reason leaves its outcome and its pnl_pips as they are and
\* only adds its profit to pnl_money.
ResolvedStaysResolved ==
    [][\A id \in DOMAIN trades, report \in CloseReports :
          (/\ Applies(id, report)
           /\ trades[id].status = "closed"
           /\ trades[id].outcome \in ResolvedOutcomes) =>
              /\ trades'[id].outcome = trades[id].outcome
              /\ trades'[id].pnl_pips = trades[id].pnl_pips
              /\ trades'[id].pnl_money = trades[id].pnl_money + report.profit]_vars

\* the states and the outcomes of a TradeRecord as the spec lists them
SpecStatuses == {"queued", "pending", "executed", "closed", "failed"}

SpecOutcomes ==
    {"open", "full_win", "partial_win", "loss", "breakeven", "cancelled", "failed"}

\* C39 as the spec states it: in every reachable state the status of each
\* TradeRecord is one of queued, pending, executed, closed, failed and its
\* outcome one of open, full_win, partial_win, loss, breakeven, cancelled,
\* failed.
StatusAndOutcomeAsListed ==
    \A id \in DOMAIN trades :
        /\ trades[id].status \in SpecStatuses
        /\ trades[id].outcome \in SpecOutcomes


\* the registry holds the watch of this id
Registered(id) == \E k \in DOMAIN watch_trades : watch_trades[k] = id

\* C36 as the spec states it: no watch leaves the registry while its status
\* is still watching, so that every watch reaches confirmed, rejected or
\* expired.
WatchingStaysRegistered ==
    [][\A id \in DOMAIN heap :
          (Registered(id) /\ heap[id].status = "watching") => Registered(id)']_vars


\* no operation is under way: no pipeline holds the lock, no /confirm_entry
\* awaits the model or the messenger, the scheduler sleeps
Quiescent ==
    /\ pl.pc = "idle"
    /\ sched.pc = "idle"
    /\ \A r \in Reqs : req[r].pc \in {"idle", "answered"}

\* C37 as the spec states it: after an operation has completed, the ids of
\* the persisted rows with status watching are the ids of the watches of the
\* registry with status watching.
PersistenceMirrorsRegistry ==
    Quiescent =>
        load_active_watches(watch_persist) =
            {id \in DOMAIN heap : Registered(id) /\ heap[id].status = "watching"}


\* C34 as the spec states it: for every symbol and local date the missed-scan
\* warning is emitted at most once, and only while no scan of the symbol was
\* made on that date.
DeadlineWarningOncePerDay ==
    [][\A key \in DOMAIN journal.warnings' :
          Logged(journal.warnings', key) > Logged(journal.warnings, key) =>
              /\ Logged(journal.warnings, key) = 0
              /\ key \notin journal.scans]_vars

\* the clock stands at or after 19:00 of the date
ReportDue(date) ==
    mez.date > date \/ (mez.date = date /\ Hour(mez) >= 19)

\* C35: within one process run the weekly report is dispatched exactly once
\* for each Sunday whose 19:00 hour the loop has reached, never twice, and
\* for no other day.
WeeklyReportOncePerSunday ==
    \A date \in FirstTick.date .. mez.date :
        /\ Logged(journal.reports, date) <= 1
        /\ Logged(journal.reports, date) = 1 <=> (Weekday(date) = 6 /\ ReportDue(date))

\* C35, its case: the report of a Sunday was dispatched, the guard was reset,
\* and the report of the following Sunday was dispatched
ReportedOnTwoSundays ==
    \E date \in DOMAIN journal.reports :
        /\ date + 7 \in DOMAIN journal.reports
        /\ Hour(mez) = 19 /\ Minute(mez) >= 5



\* C40 as the spec states it: for every watch the calls of the confirmation
\* model made on its behalf number at most max_confirmations, whatever the
\* provider returns.
Tier3CallsWithinMax ==
    \A id \in DOMAIN tier3_usage \cap DOMAIN heap :
        tier3_usage[id] <= heap[id].max_confirmations



\* C33: at most one _run_analysis task is inside the body of the pipeline
\* lock at any time, whatever the symbols; a task enters only while no task
\* is inside, in the order of arrival, and a task that arrives meanwhile
\* waits; the lock is released when the body ends, by an exception too, so
\* that a waiting pipeline is started in the end.
OnePipelineAtATime ==
    /\ [](pl.holders <= 1)
    /\ [][/\ pl'.holders > pl.holders =>
                /\ pl.pc = "idle"
                /\ waiting # <<>>
                /\ pl'.symbol = Head(waiting)
                /\ waiting' = Tail(waiting)
          /\ pl.pc # "idle" /\ Len(waiting') > Len(waiting) => pl' = pl]_vars
    /\ (waiting # <<>>) ~> (pl.pc = "screening")

\* C33, its case: a pipeline ended by an exception, the lock is free again,
\* and the pipeline of the other symbol, which waited, has started
StartedAfterException ==
    /\ pl.pc = "screening"
    /\ pl.symbol = "GBPUSD"
    /\ "GBPJPY" \in DOMAIN last_market_data
    /\ scan_metadata = EmptyDict
    /\ waiting = <<>>



\* the items the expiry loop has before it at a step
ItemsAhead ==
    IF sched.pc = "idle" THEN {<<k, watch_trades[k]>> : k \in DOMAIN watch_trades}
    ELSE sched.todo

\* C31, /confirm_entry: the handler that answers a request the model
\* confirmed has published the watch
ConfirmedIsPublished ==
    \A r \in Reqs :
        req[r].pc = "notify" /\ req[r].confirmed /\ req'[r].pc = "answered" =>
            /\ req[r].id \in DOMAIN published'
            /\ published'[req[r].id] = Published(req[r].id) + 1

\* C31, auto-queue: the iteration that creates a watch goes on inside the
\* loop, to its announcement and to the cards of the analysis
AutoQueuedGoesOn ==
    next_id' > next_id => pl'.pc = "loop" /\ pl'.idx = pl.idx + 1

\* C31, expiry: the loop that expires a watch goes on with the items it has
\* left
ExpiryGoesOn ==
    \A id \in DOMAIN heap \cap DOMAIN heap' :
        heap[id].status = "watching" /\ heap'[id].status = "expired" =>
            sched'.todo = {item \in ItemsAhead : item[2] # id}

\* C31 as the spec states it: whether or not delete_watch or persist_watch
\* raises, a /confirm_entry that the model confirmed publishes the watch, the
\* auto-queue loop goes on after it created a watch, and the expiry loop goes
\* on after it expired one.
PersistenceFailureNeverBlocks ==
    [][ConfirmedIsPublished /\ AutoQueuedGoesOn /\ ExpiryGoesOn]_vars



\* what an operation leaves behind: the watches with their status and
\* confirmations_used, the registry and its rows, the queue of pending
\* trades, the trade records, and where each task stands
Outcome ==
    <<heap, watch_trades, watch_persist, pending_trades, published,
      last_published, trades, close_reports, expiry_sent, req, pl, sched>>

\* C32: a step of the pipeline, of /confirm_entry, of the expiry loop, of
\* /trade_executed or of /trade_closed in which a messenger send raises ends
\* with the watches, the queue of pending trades and the trade records that
\* the same step has when the send succeeds.
SendFailureKeepsCore ==
    [][send_errors' > send_errors =>
          \E outcome \in {Outcome'} :
              IF pl' # pl
              THEN ENABLED (PipelineNotifying({TRUE}) /\ Outcome' = outcome)
              ELSE ENABLED (Notifying({TRUE}) /\ Outcome' = outcome)]_vars

\* C32, its case: send_zone_reached or send_confirmation_result raised in a
\* /confirm_entry that the model confirmed, and the watch is confirmed and
\* published; no other operation has sent anything
ConfirmedThoughSendFailed ==
    /\ send_errors > 0
    /\ last_market_data = EmptyDict
    /\ expiry_sent = EmptyDict
    /\ close_reports = EmptyDict
    /\ "w1" \in DOMAIN heap /\ heap["w1"].status = "confirmed"
    /\ Published("w1") = 1
    /\ "w1" \in DOMAIN trades /\ trades["w1"].status = "queued"

====
